---- MODULE Spec2Model ----
(***************************************************************************)
(* NewsPulse: the ingestion pipeline (backend/scrapers/rss_scraper.py,     *)
(* driven by backend/app.py) and the watch-list risk scan                  *)
(* (backend/agent.py) as state machines over one document store.           *)
(*                                                                         *)
(* Strings are sequences of small naturals (byte codes). The document      *)
(* store is the set of documents of the article index, each carrying its   *)
(* _id and the _version the store keeps per _id.                           *)
(***************************************************************************)
EXTENDS Integers, Sequences, FiniteSets, TLC

VARIABLES
    store,          \* the article index: a set of [_id, _version, _source]
    page,           \* the web: what fetching and building each URL yields now
    phase,          \* per ingestion run: position inside ingest_from_feeds
    cycle,          \* per ingestion run: number of cycles started
    feed_entries,   \* per run: the list fetch_feed_entries returned
    futures,        \* per run: one record per submitted process_single_article
    docs_to_index,  \* per run: the batch collected from the workers
    bulkPos,        \* per run: next action of the batch the bulk helper sends
    bulkErrors,     \* per run: actions of the batch the store rejected
    hist,           \* per run: history kept for stating properties
    users_index,    \* the news_users index: "missing", or its user documents
    now,            \* the clock, in hours
    ppc,            \* position inside run_patrol
    topic_map,      \* run_patrol: topic -> emails, in insertion order
    todo,           \* run_patrol: index of the next topic of the loop
    risk_list,      \* run_patrol: the critical risk records so far
    risk_log,       \* every record analyze_topic_risk returned this patrol
    alerts,         \* the risk lists generate_alert_batch got this patrol
    pout,           \* how the last patrol ended: "returned" or "raised"
    item,           \* one feed entry followed through process_single_article
    svc             \* the processes that run the cycles: lifecycle and scheduler

ingestVars == <<store, page, phase, cycle, feed_entries, futures,
                docs_to_index, bulkPos, bulkErrors, hist>>

patrolVars == <<users_index, now, ppc, topic_map, todo, risk_list, risk_log,
                alerts, pout>>

workerVars == <<item>>

serviceVars == <<svc>>

vars == <<ingestVars, patrolVars, workerVars, serviceVars>>

----------------------------------------------------------------------------
(* Bounds of the model *)

\* longest feed list of a single ingestion run
MaxFeed == 2
\* cycles of the background loop, and its longest feed list
MaxCycles == 2
RerunFeed == 1
\* longest feed list of each of two overlapping runs
OverlapFeed == 1
\* feed entries submitted to the pool, more than it has workers
PoolFeed == 6
\* the hour at which the model starts
InitialNow == 30

(* Program constants *)

\* ThreadPoolExecutor(max_workers=5)
max_workers == 5
\* length of hashlib.md5(...).hexdigest()
DigestLen == 32
\* timedelta(hours=24)
RecentHours == 24
\* "size": 5
SearchSize == 5

\* the URLs feeds can list, as byte strings
URLS == { <<1, 1>>, <<1, 2>> }

\* what the web gives for a URL: "ok" a page with a usable body, "nobody" no
\* extractor yields a body, "bad" a body whose document fails to build
PageStates == {"ok", "nobody", "bad"}

\* the two places ingest_from_feeds is called from
RUNS == {"lifecycle", "manual"}

----------------------------------------------------------------------------
(* generate_id: md5 of the URL's bytes, as 32 hex digits.  The compression  *)
(* function is abstracted to a positional fold; what is kept is that every  *)
(* digit is a function of the bytes alone and that the length is fixed.     *)

RECURSIVE DigestFold(_, _, _)
DigestFold(bytes, k, acc) ==
    IF bytes = <<>> THEN acc
    ELSE DigestFold(Tail(bytes), k, (acc * 33 + Head(bytes) + k) % 16)

md5_hexdigest(bytes) == [k \in 1..DigestLen |-> DigestFold(bytes, k, k % 16)]

\* a digest that also mixes in how many documents the store holds
generate_id_salted(url) ==
    md5_hexdigest(url \o <<Cardinality(store)>>)

\* the digests of the model's URLs, computed once
Md5Table == [u \in URLS |-> md5_hexdigest(u)]

generate_id(url) == Md5Table[url]

----------------------------------------------------------------------------
(* Feed entries and documents *)

Entries == [link : URLS]

FeedLists(n) == UNION { [1..k -> Entries] : k \in 0..n }

\* the fields of the canonical document that the risk scan reads, besides
\* the url; published_date 0 stands for None
ArticleDoc(url, content) ==
    [url |-> url, title |-> content.title, summary |-> content.summary,
     sentiment_overall |-> content.sentiment_overall,
     published_date |-> content.published_date]

\* what extraction and the analyzers make of the page of a URL
PageContent(url) ==
    [title |-> url, summary |-> <<>>, sentiment_overall |-> "neutral",
     published_date |-> 0]

\* the bulk action process_single_article returns, keyed by an id the store
\* would assign itself
BulkAction_autoid(doc_id, url) ==
    [_id |-> <<>>, _source |-> ArticleDoc(url, PageContent(url))]

\* the bulk action process_single_article returns
BulkAction(doc_id, url) ==
    [_id |-> doc_id, _source |-> ArticleDoc(url, PageContent(url))]

\* an existence check that never finds the id
Exists_never(id) == FALSE

\* es.exists(index, id)
Exists(id) == \E d \in store : d._id = id

\* an index operation that adds the document beside the one already there
IndexDoc_append(s, action) ==
    LET old == {d \in s : d._id = action._id}
        ver == IF old = {} THEN 1 ELSE 1 + (CHOOSE d \in old : TRUE)._version
    IN  s \cup {[_id |-> action._id, _version |-> ver, _source |-> action._source]}

\* one index operation of the bulk request: the document takes the place of
\* the one stored under the same _id, whose version it raises
IndexDoc(s, action) ==
    LET old == {d \in s : d._id = action._id}
        ver == IF old = {} THEN 1 ELSE 1 + (CHOOSE d \in old : TRUE)._version
    IN  (s \ old) \cup
        {[_id |-> action._id, _version |-> ver, _source |-> action._source]}

----------------------------------------------------------------------------
(* The futures of one cycle *)

Queued == [pc |-> "queued", found |-> FALSE, starts |-> 0, checks |-> 0,
           downloads |-> 0, analyses |-> 0, result |-> "pending"]

Running(r) ==
    {i \in DOMAIN futures[r] : futures[r][i].pc \in {"check", "download", "nlp"}}

\* a with-block that ends at the first future taken
AllCollected_first(r) ==
    \E i \in DOMAIN futures[r] : futures[r][i].pc = "collected"

\* the with-block waits for every future
AllCollected(r) ==
    \A i \in DOMAIN futures[r] : futures[r][i].pc = "collected"

\* a pool that starts a queued item whatever the number of busy workers
PoolHasIdleWorker_unbounded(r) == TRUE

\* the pool runs a queued item only on one of its max_workers threads
PoolHasIdleWorker(r) == Cardinality(Running(r)) < max_workers

\* a gate that never skips
GateSkips_never(found) == FALSE

\* process_single_article returns None when the id exists
GateSkips(found) == found

\* a collector that lets a worker's exception end the cycle
AfterCollect_propagate(result) ==
    IF result = "raised" THEN "raised" ELSE "pool"

\* the as_completed loop goes on after every future, raised or not
AfterCollect(result) == "pool"

\* a collector that also takes the document of a future that raised
Collected_raised(docs, f, entry) ==
    IF f.result \in {"doc", "raised"}
    THEN Append(docs, BulkAction(generate_id(entry.link), entry.link))
    ELSE docs

\* a collector that takes an action for every future that did not raise
Collected_skipped(docs, f, entry) ==
    IF f.result \in {"doc", "None"}
    THEN Append(docs, BulkAction(generate_id(entry.link), entry.link))
    ELSE docs

\* docs_to_index after a future's result is taken
Collected(docs, f, entry) ==
    IF f.result = "doc"
    THEN Append(docs, BulkAction(generate_id(entry.link), entry.link))
    ELSE docs

----------------------------------------------------------------------------
(* The texts of the model, as character codes *)

\* "Rain hit the coast at dawn. The sea rose and cut the road. No one was hurt but the town is shut. Aid is on the way to the port and the old pier as of now. It may go on."
LongBody ==
    <<82, 97, 105, 110, 32, 104, 105, 116, 32, 116, 104, 101, 32, 99, 111,
      97, 115, 116, 32, 97, 116, 32, 100, 97, 119, 110, 46, 32, 84, 104,
      101, 32, 115, 101, 97, 32, 114, 111, 115, 101, 32, 97, 110, 100, 32,
      99, 117, 116, 32, 116, 104, 101, 32, 114, 111, 97, 100, 46, 32, 78,
      111, 32, 111, 110, 101, 32, 119, 97, 115, 32, 104, 117, 114, 116, 32,
      98, 117, 116, 32, 116, 104, 101, 32, 116, 111, 119, 110, 32, 105,
      115, 32, 115, 104, 117, 116, 46, 32, 65, 105, 100, 32, 105, 115, 32,
      111, 110, 32, 116, 104, 101, 32, 119, 97, 121, 32, 116, 111, 32, 116,
      104, 101, 32, 112, 111, 114, 116, 32, 97, 110, 100, 32, 116, 104,
      101, 32, 111, 108, 100, 32, 112, 105, 101, 114, 32, 97, 115, 32, 111,
      102, 32, 110, 111, 119, 46, 32, 73, 116, 32, 109, 97, 121, 32, 103,
      111, 32, 111, 110, 46>>

\* "Rain. Sea. Road. Town. Port. Aid is on the way to the port and the old pier as of now and no one was hurt in the town or on the road by the sea and the rain."
TerseBody ==
    <<82, 97, 105, 110, 46, 32, 83, 101, 97, 46, 32, 82, 111, 97, 100, 46,
      32, 84, 111, 119, 110, 46, 32, 80, 111, 114, 116, 46, 32, 65, 105,
      100, 32, 105, 115, 32, 111, 110, 32, 116, 104, 101, 32, 119, 97, 121,
      32, 116, 111, 32, 116, 104, 101, 32, 112, 111, 114, 116, 32, 97, 110,
      100, 32, 116, 104, 101, 32, 111, 108, 100, 32, 112, 105, 101, 114,
      32, 97, 115, 32, 111, 102, 32, 110, 111, 119, 32, 97, 110, 100, 32,
      110, 111, 32, 111, 110, 101, 32, 119, 97, 115, 32, 104, 117, 114,
      116, 32, 105, 110, 32, 116, 104, 101, 32, 116, 111, 119, 110, 32,
      111, 114, 32, 111, 110, 32, 116, 104, 101, 32, 114, 111, 97, 100, 32,
      98, 121, 32, 116, 104, 101, 32, 115, 101, 97, 32, 97, 110, 100, 32,
      116, 104, 101, 32, 114, 97, 105, 110, 46>>

\* "Rain hit the coast. Road cut."
ShortBody ==
    <<82, 97, 105, 110, 32, 104, 105, 116, 32, 116, 104, 101, 32, 99, 111,
      97, 115, 116, 46, 32, 82, 111, 97, 100, 32, 99, 117, 116, 46>>

\* "Storm struck the coast at dawn. The sea rose and cut off the road. No one was hurt but the town is closed. Help is on its way to the port and the old pier right now. It may go on."
EnglishBody ==
    <<83, 116, 111, 114, 109, 32, 115, 116, 114, 117, 99, 107, 32, 116,
      104, 101, 32, 99, 111, 97, 115, 116, 32, 97, 116, 32, 100, 97, 119,
      110, 46, 32, 84, 104, 101, 32, 115, 101, 97, 32, 114, 111, 115, 101,
      32, 97, 110, 100, 32, 99, 117, 116, 32, 111, 102, 102, 32, 116, 104,
      101, 32, 114, 111, 97, 100, 46, 32, 78, 111, 32, 111, 110, 101, 32,
      119, 97, 115, 32, 104, 117, 114, 116, 32, 98, 117, 116, 32, 116, 104,
      101, 32, 116, 111, 119, 110, 32, 105, 115, 32, 99, 108, 111, 115,
      101, 100, 46, 32, 72, 101, 108, 112, 32, 105, 115, 32, 111, 110, 32,
      105, 116, 115, 32, 119, 97, 121, 32, 116, 111, 32, 116, 104, 101, 32,
      112, 111, 114, 116, 32, 97, 110, 100, 32, 116, 104, 101, 32, 111,
      108, 100, 32, 112, 105, 101, 114, 32, 114, 105, 103, 104, 116, 32,
      110, 111, 119, 46, 32, 73, 116, 32, 109, 97, 121, 32, 103, 111, 32,
      111, 110, 46>>

\* "Rain cut the coast road."
ModelSummary ==
    <<82, 97, 105, 110, 32, 99, 117, 116, 32, 116, 104, 101, 32, 99, 111,
      97, 115, 116, 32, 114, 111, 97, 100, 46>>

\* "Storm floods coast road"
FeedPlain ==
    <<83, 116, 111, 114, 109, 32, 102, 108, 111, 111, 100, 115, 32, 99,
      111, 97, 115, 116, 32, 114, 111, 97, 100>>

\* "Storm floods coast road - The Hindu"
FeedSuffixed ==
    <<83, 116, 111, 114, 109, 32, 102, 108, 111, 111, 100, 115, 32, 99,
      111, 97, 115, 116, 32, 114, 111, 97, 100, 32, 45, 32, 84, 104, 101,
      32, 72, 105, 110, 100, 117>>

\* "Big storm - The Hindu"
FeedShortCore ==
    <<66, 105, 103, 32, 115, 116, 111, 114, 109, 32, 45, 32, 84, 104, 101,
      32, 72, 105, 110, 100, 117>>

\* "-floods coast road today"
FeedLeadingHyphen ==
    <<45, 102, 108, 111, 111, 100, 115, 32, 99, 111, 97, 115, 116, 32, 114,
      111, 97, 100, 32, 116, 111, 100, 97, 121>>

\* "Breaking news from the coast"
FeedGeneric ==
    <<66, 114, 101, 97, 107, 105, 110, 103, 32, 110, 101, 119, 115, 32,
      102, 114, 111, 109, 32, 116, 104, 101, 32, 99, 111, 97, 115, 116>>

\* "Storm"
FeedShort ==
    <<83, 116, 111, 114, 109>>

\* "Coast road flooded by storm"
ExtractedTitle ==
    <<67, 111, 97, 115, 116, 32, 114, 111, 97, 100, 32, 102, 108, 111, 111,
      100, 101, 100, 32, 98, 121, 32, 115, 116, 111, 114, 109>>

\* "Flood"
ExtractedShort ==
    <<70, 108, 111, 111, 100>>

\* "Rain hit the coast at dawn"
ContentTitle ==
    <<82, 97, 105, 110, 32, 104, 105, 116, 32, 116, 104, 101, 32, 99, 111,
      97, 115, 116, 32, 97, 116, 32, 100, 97, 119, 110>>

\* "Storm Floods Coast Road"
UrlTitle ==
    <<83, 116, 111, 114, 109, 32, 70, 108, 111, 111, 100, 115, 32, 67, 111,
      97, 115, 116, 32, 82, 111, 97, 100>>

\* "News Article"
NewsArticle ==
    <<78, 101, 119, 115, 32, 65, 114, 116, 105, 99, 108, 101>>

\* "Article from "
ArticleFrom ==
    <<65, 114, 116, 105, 99, 108, 101, 32, 102, 114, 111, 109, 32>>

\* "Unknown Source"
UnknownSource ==
    <<85, 110, 107, 110, 111, 119, 110, 32, 83, 111, 117, 114, 99, 101>>

\* "..."
Ellipsis ==
    <<46, 46, 46>>

\* invalid_titles of is_valid_title
invalid_titles ==
    {<<117, 110, 116, 105, 116, 108, 101, 100>>,
     <<110, 111, 32, 116, 105, 116, 108, 101>>,
     <<97, 114, 116, 105, 99, 108, 101>>,
     <<110, 101, 119, 115>>,
     <<112, 97, 103, 101, 32, 110, 111, 116, 32, 102, 111, 117, 110, 100>>,
     <<101, 114, 114, 111, 114>>,
     <<52, 48, 52>>,
     <<97, 99, 99, 101, 115, 115, 32, 100, 101, 110, 105, 101, 100>>}

\* "Apple"
Apple ==
    <<65, 112, 112, 108, 101>>

\* "apple"
apple_lc ==
    <<97, 112, 112, 108, 101>>

\* "Google"
Google ==
    <<71, 111, 111, 103, 108, 101>>

\* "42"
Digits ==
    <<52, 50>>

\* ".."
Dots ==
    <<46, 46>>

\* " Google "
PaddedGoogle ==
    <<32, 71, 111, 111, 103, 108, 101, 32>>


\* "a.test"
ATest ==
    <<97, 46, 116, 101, 115, 116>>

----------------------------------------------------------------------------
(* Text.  In the item pipeline a string is the sequence of its character    *)
(* codes; None and the empty string are both <<>>, as every test the code   *)
(* makes on these values is a truth test.                                   *)

\* title[:200] in clean_title
MaxTitleLen == 200
\* len(title.strip()) < 10 in is_valid_title
MinTitleLen == 10
\* len(text.strip()) > 100 in download_article
MinBodyLen == 100
\* len(text) < 50 in extract_title_from_content
MinContentLen == 50
\* 15 <= len(sentence) <= 150 in extract_title_from_content
MinSentenceLen == 15
MaxSentenceLen == 150
\* sentences[:5] in extract_title_from_content
TitleSentences == 5
\* max_tokens * 4 in truncate_text, max_tokens = 800
MaxTextChars == 3200
\* word_count < 40 in summarize
MinSummaryWords == 40
\* text[:300] in summarize
FallbackChars == 300
\* text.split('.')[:3] in summarize
FallbackSentences == 3

Space == 32
Period == 46
Hyphen == 45
Bar == 124

\* str.lower() on one character
Lower(c) == IF c \in 65..90 THEN c + 32 ELSE c

LowerStr(s) == [k \in DOMAIN s |-> Lower(s[k])]

RECURSIVE LStripSpaces(_)
LStripSpaces(s) ==
    IF s # <<>> /\ Head(s) = Space THEN LStripSpaces(Tail(s)) ELSE s

RECURSIVE RStripSpaces(_)
RStripSpaces(s) ==
    IF s # <<>> /\ s[Len(s)] = Space
    THEN RStripSpaces(SubSeq(s, 1, Len(s) - 1))
    ELSE s

\* str.strip()
StripSpaces(s) == RStripSpaces(LStripSpaces(s))

\* sub in s
Contains(sub, s) ==
    \E k \in 0..(Len(s) - Len(sub)) : SubSeq(s, k + 1, k + Len(sub)) = sub

\* s.startswith(prefix)
StartsWith(s, prefix) ==
    Len(s) >= Len(prefix) /\ SubSeq(s, 1, Len(prefix)) = prefix

\* s.rfind(c), counted from 1; 0 when c is not in s
RFind(s, c) ==
    LET at == {k \in DOMAIN s : s[k] = c}
    IN  IF at = {} THEN 0 ELSE CHOOSE k \in at : \A j \in at : j <= k

\* the n-th smallest element of a set of numbers
Nth(S, n) == CHOOSE x \in S : Cardinality({y \in S : y < x}) = n - 1

\* the characters of s at the positions K, in order
Pick(s, K) == [n \in 1..Cardinality(K) |-> s[Nth(K, n)]]

\* ' '.join(s.split()): the words, one blank between two of them
JoinSplit(s) ==
    Pick(s, {k \in DOMAIN s :
                \/ s[k] # Space
                \/ /\ k > 1 /\ s[k - 1] # Space
                   /\ \E j \in (k + 1)..Len(s) : s[j] # Space})

\* len(s.split())
WordCount(s) ==
    Cardinality({k \in DOMAIN s :
                    s[k] # Space /\ (k = 1 \/ s[k - 1] = Space)})

\* the piece of s that starts at p and runs up to the next separator
PieceFrom(s, p, seps) ==
    LET stops == {k \in p..Len(s) : s[k] \in seps}
    IN  SubSeq(s, p, IF stops = {} THEN Len(s)
                     ELSE (CHOOSE k \in stops : \A j \in stops : k <= j) - 1)

\* the pieces of s that start at the positions of starts, in order
Pieces(s, starts, seps) ==
    [n \in 1..Cardinality(starts) |-> PieceFrom(s, Nth(starts, n), seps)]

\* s.split(sep) for a one-character separator
Split(s, sep) ==
    Pieces(s, {p \in 1..(Len(s) + 1) : p = 1 \/ s[p - 1] = sep}, {sep})

\* re.split(r'[.!?]+', s)
SplitSentences(s) ==
    LET seps == {46, 33, 63}
    IN  Pieces(s, {p \in 1..(Len(s) + 1) :
                      /\ p = 1 \/ s[p - 1] \in seps
                      /\ p = 1 \/ p = Len(s) + 1 \/ s[p] \notin seps},
               seps)

\* sep.join(parts)
RECURSIVE Join(_, _)
Join(parts, sep) ==
    IF parts = <<>> THEN <<>>
    ELSE IF Len(parts) = 1 THEN parts[1]
    ELSE parts[1] \o sep \o Join(Tail(parts), sep)

\* s[:n]
Prefix(s, n) == SubSeq(s, 1, IF Len(s) < n THEN Len(s) ELSE n)

\* truncate_text(text, max_tokens = 800)
truncate_text(text) ==
    IF Len(text) <= MaxTextChars THEN text
    ELSE LET truncated == Prefix(text, MaxTextChars)
             last_period == RFind(truncated, Period)
         IN  IF (last_period - 1) * 10 > MaxTextChars * 8
             THEN Prefix(truncated, last_period)
             ELSE truncated

----------------------------------------------------------------------------
(* Titles: clean_title, is_valid_title and the chain of                     *)
(* process_single_article                                                   *)

\* re.sub(r'\s*-\s*[^-]*$', '', title): from the blanks before the last
\* hyphen to the end
StripAfterLastHyphen(s) ==
    LET k == RFind(s, Hyphen)
    IN  IF k = 0 THEN s ELSE RStripSpaces(SubSeq(s, 1, k - 1))

\* re.sub(r'^\s*[|\-]\s*', '', title)
StripLeadingMark(s) ==
    LET t == LStripSpaces(s)
    IN  IF t # <<>> /\ Head(t) \in {Bar, Hyphen} THEN LStripSpaces(Tail(t))
        ELSE s

\* re.sub(r'\s*[|\-]\s*$', '', title)
StripTrailingMark(s) ==
    LET t == RStripSpaces(s)
    IN  IF t # <<>> /\ t[Len(t)] \in {Bar, Hyphen}
        THEN RStripSpaces(SubSeq(t, 1, Len(t) - 1))
        ELSE s

\* title[:200].rsplit(' ', 1)[0] + "..." for a title longer than 200
Shorten(s) ==
    IF Len(s) <= MaxTitleLen THEN s
    ELSE LET head == Prefix(s, MaxTitleLen)
             k == RFind(head, Space)
         IN  (IF k = 0 THEN head ELSE SubSeq(head, 1, k - 1)) \o Ellipsis

clean_title(title) ==
    IF title = <<>> THEN <<>>
    ELSE StripSpaces(Shorten(StripTrailingMark(StripLeadingMark(
             StripAfterLastHyphen(JoinSplit(title))))))

is_valid_title(title) ==
    /\ title # <<>>
    /\ Len(StripSpaces(title)) >= MinTitleLen
    /\ \A inv \in invalid_titles :
           ~Contains(inv, LowerStr(StripSpaces(title)))

\* the lead-ins extract_title_from_content refuses
LeadIns ==
    {<<116, 104, 101, 32, 97, 114, 116, 105, 99, 108, 101>>,
     <<116, 104, 105, 115, 32, 97, 114, 116, 105, 99, 108, 101>>,
     <<97, 99, 99, 111, 114, 100, 105, 110, 103, 32, 116, 111>>,
     <<105, 110, 32, 97>>, <<111, 110, 32>>, <<97, 116, 32>>}

\* the loop of extract_title_from_content over the first sentences
RECURSIVE FirstTitleSentence(_)
FirstTitleSentence(sentences) ==
    IF sentences = <<>> THEN <<>>
    ELSE LET sentence == StripSpaces(Head(sentences))
             cleaned == clean_title(sentence)
         IN  IF /\ Len(sentence) >= MinSentenceLen
                /\ Len(sentence) <= MaxSentenceLen
                /\ \A p \in LeadIns : ~StartsWith(LowerStr(sentence), p)
                /\ is_valid_title(cleaned)
             THEN cleaned
             ELSE FirstTitleSentence(Tail(sentences))

extract_title_from_content(text) ==
    IF text = <<>> \/ Len(text) < MinContentLen THEN <<>>
    ELSE FirstTitleSentence(
             Prefix(SplitSentences(text), TitleSentences))

\* "Article from <domain>"
GenericLabel(domain) == ArticleFrom \o domain

\* a title chain whose result is tested for emptiness only
final_title_unguarded(rss_title, extracted, text, url_title, domain) ==
    LET p1 == IF rss_title # <<>> /\ is_valid_title(rss_title)
              THEN clean_title(rss_title) ELSE <<>>
        p2 == IF p1 # <<>> THEN p1
              ELSE IF extracted # <<>> /\ is_valid_title(extracted)
                   THEN clean_title(extracted) ELSE <<>>
        content_title == extract_title_from_content(text)
        p3 == IF p2 # <<>> THEN p2
              ELSE IF content_title # <<>> /\ is_valid_title(content_title)
                   THEN content_title ELSE <<>>
        p4 == IF p3 # <<>> THEN p3 ELSE url_title
    IN  IF p4 = <<>> THEN GenericLabel(domain) ELSE p4

\* Title Logic of process_single_article: feed title, extracted title,
\* content-based title, URL-based title, generic label
final_title(rss_title, extracted, text, url_title, domain) ==
    LET p1 == IF rss_title # <<>> /\ is_valid_title(rss_title)
              THEN clean_title(rss_title) ELSE <<>>
        p2 == IF p1 # <<>> THEN p1
              ELSE IF extracted # <<>> /\ is_valid_title(extracted)
                   THEN clean_title(extracted) ELSE <<>>
        content_title == extract_title_from_content(text)
        p3 == IF p2 # <<>> THEN p2
              ELSE IF content_title # <<>> /\ is_valid_title(content_title)
                   THEN content_title ELSE <<>>
        p4 == IF p3 # <<>> THEN p3 ELSE url_title
    IN  IF p4 = <<>> \/ ~is_valid_title(p4) THEN GenericLabel(domain) ELSE p4

----------------------------------------------------------------------------
(* The extractors and the analyzers.  What the web and the models do is the *)
(* world of one cycle; the code around them is modelled as written.         *)

\* longest list of spans the entity model returns
MaxEntities == 3
\* cycles of ingest_from_feeds the one feed entry is followed through
ItemCycles == 2

\* a score that is None
NoScore == -1

\* download_article: trafilatura on the fetched page, then newspaper3k; the
\* result names the extractors that were run, in order
download_article_primary_only(w) ==
    IF /\ ~w.primary.raised
       /\ w.primary.status = 200
       /\ Len(StripSpaces(w.primary.text)) > MinBodyLen
    THEN [found |-> TRUE, tried |-> <<"trafilatura">>,
          method |-> "trafilatura", text |-> w.primary.text,
          title |-> <<>>]
    ELSE [found |-> FALSE, tried |-> <<"trafilatura">>, method |-> "none",
          text |-> <<>>, title |-> <<>>]

download_article(w) ==
    IF /\ ~w.primary.raised
       /\ w.primary.status = 200
       /\ Len(StripSpaces(w.primary.text)) > MinBodyLen
    THEN LET pt == clean_title(w.page_title)
             meta == IF w.page_title # <<>> /\ is_valid_title(pt)
                     THEN pt ELSE <<>>
             html == IF meta # <<>> THEN meta ELSE w.html_title
         IN  [found |-> TRUE, tried |-> <<"trafilatura">>,
              method |-> "trafilatura", text |-> w.primary.text,
              title |-> IF html # <<>> THEN html
                        ELSE extract_title_from_content(w.primary.text)]
    ELSE IF /\ ~w.secondary.raised
            /\ Len(StripSpaces(w.secondary.text)) > MinBodyLen
    THEN LET pt == clean_title(w.page_title)
         IN  [found |-> TRUE, tried |-> <<"trafilatura", "newspaper3k">>,
              method |-> "newspaper3k", text |-> w.secondary.text,
              title |-> IF w.page_title # <<>> /\ is_valid_title(pt)
                        THEN pt ELSE <<>>]
    ELSE [found |-> FALSE, tried |-> <<"trafilatura", "newspaper3k">>,
          method |-> "none", text |-> <<>>, title |-> <<>>]

\* safe_nlp_operation: what the operation returned, or None when it raised
safe_nlp_operation(outcome) ==
    IF outcome.kind = "raise" THEN [outcome EXCEPT !.kind = "none"]
    ELSE outcome

\* a result taken without looking at it
Truthy_always(result) == TRUE

\* if translated_result: a value that is neither None nor empty
Truthy(result) == result.kind = "value" /\ result.value # <<>>

\* a translation step whose result is not passed on
text_after_translation_unused(text, translated_result) == text

\* if translated_result: text = translated_result
text_after_translation(text, translated_result) ==
    IF Truthy(translated_result) THEN translated_result.value ELSE text

\* a language step without the default
language_or_default_none(result) ==
    IF result.kind = "none" THEN "None" ELSE result.value

\* safe_nlp_operation("Language detection", ...) or "en"
language_or_default(result) ==
    IF result.kind = "none" \/ result.value = "" THEN "en" ELSE result.value

\* bias_overall, bias_score and sentiment_overall, sentiment_score from a
\* result: ("neutral", 0.0) unless the result has two elements
label_and_score(result) ==
    IF result.kind = "pair"
    THEN [label |-> IF result.label \in {"None", ""} THEN "neutral"
                    ELSE result.label,
          score |-> IF result.score = NoScore THEN 0 ELSE result.score]
    ELSE [label |-> "neutral", score |-> 0]

\* the except branch of summarize handing back nothing
sentence_fallback_empty(text) == <<>>

\* the except branch of summarize: the first sentences of the text
sentence_fallback(text) ==
    LET sentences == Prefix(Split(text, Period), FallbackSentences)
        fallback == StripSpaces(Join(sentences, <<Period, Space>>))
    IN  IF fallback # <<>> /\ fallback[Len(fallback)] # Period
        THEN Append(fallback, Period)
        ELSE fallback

\* summarize(text) with the summarization pipeline behaving as model says
summarize(text, model) ==
    IF text = <<>> \/ StripSpaces(text) = <<>> THEN <<>>
    ELSE IF model = "unloaded" THEN Prefix(text, FallbackChars) \o Ellipsis
    ELSE IF WordCount(text) < MinSummaryWords THEN text
    ELSE IF model = "raises" THEN sentence_fallback(text)
    ELSE IF model = "summary" THEN StripSpaces(ModelSummary)
    ELSE <<>>

\* classify_sentiment(text) with the classifier behaving as model says
classify_sentiment(text, model) ==
    IF text = <<>> \/ StripSpaces(text) = <<>> \/
       model \in {"unloaded", "raises", "noresult"}
    THEN [kind |-> "pair", label |-> "neutral", score |-> 0]
    ELSE [kind |-> "pair",
          label |-> IF model \in {"positive", "negative"} THEN model
                    ELSE "neutral",
          score |-> 90]

\* ent.label_.lower()
LabelLower(label) ==
    IF label = "ORG" THEN "org"
    ELSE IF label = "GPE" THEN "gpe"
    ELSE IF label = "CARDINAL" THEN "cardinal"
    ELSE "misc"

\* _extract_with_spacy: the spans longer than one character
RECURSIVE extract_with_spacy(_)
extract_with_spacy(spans) ==
    IF spans = <<>> THEN <<>>
    ELSE LET ent == Head(spans)
         IN  (IF ent.text # <<>> /\ Len(StripSpaces(ent.text)) > 1
              THEN <<[name |-> StripSpaces(ent.text),
                      type |-> LabelLower(ent.label),
                      sentiment |-> "neutral", score |-> 90]>>
              ELSE <<>>)
             \o extract_with_spacy(Tail(spans))

\* '.,!?;:()-[]{}"\''
Punctuation == {46, 44, 33, 63, 59, 58, 40, 41, 45, 91, 93, 123, 125, 34, 39}

\* a name test that lets numbers through
discarded_name_numbers_kept(raw, name) ==
    \/ raw = <<>>
    \/ Len(name) < 2
    \/ \A k \in DOMAIN name : name[k] \in Punctuation

\* the names _validate_entities passes over: none or empty, shorter than two
\* characters once stripped, name.isdigit(), punctuation only
discarded_name(raw, name) ==
    \/ raw = <<>>
    \/ Len(name) < 2
    \/ \A k \in DOMAIN name : name[k] \in 48..57
    \/ \A k \in DOMAIN name : name[k] \in Punctuation

\* the first loop of _validate_entities
RECURSIVE Validated(_)
Validated(entities) ==
    IF entities = <<>> THEN <<>>
    ELSE LET entity == Head(entities)
             name == StripSpaces(entity.name)
         IN  (IF discarded_name(entity.name, name)
              THEN <<>>
              ELSE <<[name |-> name, type |-> entity.type,
                      sentiment |-> IF entity.sentiment \in
                                          {"positive", "negative", "neutral"}
                                    THEN entity.sentiment ELSE "neutral",
                      score |-> entity.score]>>)
             \o Validated(Tail(entities))

\* a key that tells names apart by their case
name_key_exact(name) == name

\* entity["name"].lower()
name_key(name) == LowerStr(name)

\* the second loop of _validate_entities: the first entity of every name
RECURSIVE UniqueEntities(_, _)
UniqueEntities(validated, seen_names) ==
    IF validated = <<>> THEN <<>>
    ELSE LET entity == Head(validated)
             name_lower == name_key(entity.name)
         IN  IF name_lower \in seen_names
             THEN UniqueEntities(Tail(validated), seen_names)
             ELSE <<entity>> \o UniqueEntities(Tail(validated),
                                    seen_names \cup {name_lower})

validate_entities(entities) == UniqueEntities(Validated(entities), {})

\* extract_entities(text) with the entity model behaving as ner says
extract_entities(text, ner) ==
    IF text = <<>> \/ ner.kind # "spans" THEN <<>>
    ELSE validate_entities(extract_with_spacy(ner.spans))

\* validate_and_create_entities: an EntitySentiment per entity with a name;
\* an entity whose EntitySentiment cannot be constructed (here: its type is
\* one of rejected) is passed over
RECURSIVE validate_and_create_entities(_, _)
validate_and_create_entities(entities_data, rejected) ==
    IF entities_data = <<>> THEN <<>>
    ELSE LET e == Head(entities_data)
         IN  (IF \/ e.name = <<>>
                 \/ StripSpaces(e.name) = <<>>
                 \/ e.type \in rejected
              THEN <<>>
              ELSE <<[e EXCEPT !.name = StripSpaces(e.name)]>>)
             \o validate_and_create_entities(Tail(entities_data), rejected)

----------------------------------------------------------------------------
(* The worlds of one feed entry and the record that follows the entry       *)
(* through process_single_article                                           *)

\* the entry of the one-entry feed
ItemLink == CHOOSE u \in URLS : TRUE

\* a world in which every collaborator works
Nominal ==
    [primary    |-> [raised |-> FALSE, status |-> 200, text |-> LongBody],
     secondary  |-> [raised |-> FALSE, text |-> LongBody],
     page_title |-> ExtractedTitle,
     html_title |-> <<>>,
     rss_title  |-> FeedPlain,
     url_title  |-> UrlTitle,
     domain     |-> ATest,
     language   |-> [kind |-> "value", value |-> "en"],
     translation |-> [kind |-> "value", value |-> EnglishBody],
     summarizer |-> "summary",
     ner        |-> [kind |-> "spans", spans |-> <<[text |-> Apple, label |-> "ORG"]>>],
     rejected   |-> {},
     bias       |-> [kind |-> "pair", label |-> "left", score |-> 70],
     sentiment_model |-> "negative",
     validates  |-> TRUE]

\* what the fetch and trafilatura can do with the page
Primaries ==
    {[raised |-> FALSE, status |-> 200, text |-> LongBody],
     [raised |-> FALSE, status |-> 200, text |-> ShortBody],
     [raised |-> FALSE, status |-> 404, text |-> <<>>],
     [raised |-> TRUE, status |-> 200, text |-> <<>>]}

\* what newspaper3k can do with the page
Secondaries ==
    {[raised |-> FALSE, text |-> LongBody],
     [raised |-> FALSE, text |-> ShortBody],
     [raised |-> TRUE, text |-> <<>>]}

ExtractorWorlds ==
    {[Nominal EXCEPT !.primary = p, !.secondary = s] :
        p \in Primaries, s \in Secondaries}

\* the candidates of the title chain
TitleWorlds ==
    {[Nominal EXCEPT !.rss_title = t, !.page_title = e, !.primary.text = b,
                     !.url_title = u] :
        t \in {<<>>, FeedPlain, FeedSuffixed, FeedShortCore,
               FeedLeadingHyphen, FeedGeneric, FeedShort},
        e \in {<<>>, ExtractedTitle, ExtractedShort},
        b \in {LongBody, TerseBody},
        u \in {UrlTitle, NewsArticle}}

\* detect_language and translate_to_english: a value, None or an exception
LanguageBehaviours ==
    {[language |-> [kind |-> k, value |-> "en"],
      translation |-> Nominal.translation] : k \in {"raise", "none", "value"}}
    \cup
    {[language |-> [kind |-> "value", value |-> "hi"],
      translation |-> t] :
        t \in {[kind |-> "value", value |-> EnglishBody],
               [kind |-> "value", value |-> <<>>],
               [kind |-> "none", value |-> <<>>],
               [kind |-> "raise", value |-> <<>>]}}

\* classify_bias: an exception, None, a result too short, a pair, a pair of
\* Nones
BiasBehaviours ==
    {[kind |-> "raise", label |-> "None", score |-> NoScore],
     [kind |-> "none", label |-> "None", score |-> NoScore],
     [kind |-> "short", label |-> "left", score |-> NoScore],
     [kind |-> "pair", label |-> "left", score |-> 70],
     [kind |-> "pair", label |-> "None", score |-> NoScore]}

\* the summarization pipeline: not loaded, raising, answering without a
\* summary text, answering with one; on the text as extracted and translated
SummarizerWorlds ==
    {[Nominal EXCEPT !.language = l.language, !.translation = l.translation,
                     !.summarizer = s] :
        l \in LanguageBehaviours,
        s \in {"unloaded", "raises", "nosummary", "summary"}}

AnalyzerWorlds ==
    {[Nominal EXCEPT !.language = l.language, !.translation = l.translation,
                     !.summarizer = s, !.ner = n, !.bias = b,
                     !.sentiment_model = c, !.validates = v] :
        l \in LanguageBehaviours,
        s \in {"raises", "summary"},
        n \in {Nominal.ner, [kind |-> "raises", spans |-> <<>>]},
        b \in BiasBehaviours,
        c \in {"unloaded", "raises", "noresult", "negative"},
        v \in BOOLEAN}

\* the spans the entity model can return
Spans ==
    {[text |-> Apple, label |-> "ORG"], [text |-> apple_lc, label |-> "GPE"],
     [text |-> PaddedGoogle, label |-> "ORG"],
     [text |-> Digits, label |-> "CARDINAL"], [text |-> Dots, label |-> "ORG"],
     [text |-> <<>>, label |-> "ORG"]}

\* the entity types EntitySentiment can refuse
Refusals == {{}, {"gpe"}}

EntityWorlds ==
    {[Nominal EXCEPT !.ner = [kind |-> "spans", spans |-> sp],
                     !.rejected = r] :
        sp \in UNION {[1..n -> Spans] : n \in 0..MaxEntities},
        r \in Refusals}

\* the worlds of a cycle: everything varies in the first, the extractors in
\* the later ones
Worlds(c) ==
    IF c = 1
    THEN ExtractorWorlds \cup TitleWorlds \cup SummarizerWorlds
         \cup AnalyzerWorlds \cup EntityWorlds
    ELSE ExtractorWorlds

\* the entry before its first cycle
NoItem ==
    [pc |-> "idle", cycle |-> 0, world |-> Nominal, found |-> FALSE,
     tried |-> <<>>, raw_title |-> <<>>, text |-> <<>>, title |-> <<>>,
     lang |-> "None", translated_text |-> <<>>, summary |-> <<>>,
     entities |-> <<>>, bias |-> [label |-> "None", score |-> NoScore],
     sentiment |-> [label |-> "None", score |-> NoScore],
     calls |-> <<>>, args |-> <<>>, result |-> "pending", batch |-> <<>>,
     outcome |-> "none",
     prev |-> [result |-> "pending", tried |-> <<>>, stored |-> FALSE]]

\* article_doc.model_dump(): the fields of the built document (source_name
\* and original_text left out)
doc_dict(it) ==
    [url |-> ItemLink, title |-> it.title, published_date |-> 0,
     language |-> it.lang, translated_text |-> it.translated_text,
     summary |-> it.summary,
     bias_overall |-> it.bias.label, bias_score |-> it.bias.score,
     sentiment_overall |-> it.sentiment.label,
     sentiment_score |-> it.sentiment.score,
     entities |-> it.entities]

\* the two processes before they start, the store reachable: the position
\* of run_agent_lifecycle, the iterations of its loop started and given up,
\* the position of run_live_system.py
NoService ==
    [lifecycle |-> "startup", started |-> 0, aborted |-> 0,
     scheduler |-> "importing", es_up |-> TRUE]

----------------------------------------------------------------------------
(* Initial state: an empty index, any web, no run started *)

NoHist ==
    [prevFeed     |-> [r \in RUNS |-> <<>>],
     prevOk       |-> [r \in RUNS |-> FALSE],
     startStore   |-> [r \in RUNS |-> {}],
     changed      |-> [r \in RUNS |-> FALSE],
     changedPrev  |-> [r \in RUNS |-> FALSE],
     wrote        |-> [r \in RUNS |-> {}],
     persisted    |-> [r \in RUNS |-> {}],
     errors       |-> [r \in RUNS |-> 0],
     idlog        |-> {}]

\* what holds in every initial state: no run of ingest_from_feeds started
Idle ==
    /\ phase = [r \in RUNS |-> "idle"]
    /\ cycle = [r \in RUNS |-> 0]
    /\ feed_entries = [r \in RUNS |-> <<>>]
    /\ futures = [r \in RUNS |-> <<>>]
    /\ docs_to_index = [r \in RUNS |-> <<>>]
    /\ bulkPos = [r \in RUNS |-> 1]
    /\ bulkErrors = [r \in RUNS |-> 0]
    /\ hist = NoHist
    /\ item = NoItem
    /\ svc = NoService

\* no patrol started
PatrolIdle ==
    /\ ppc = "Idle"
    /\ topic_map = <<>>
    /\ todo = 1
    /\ risk_list = <<>>
    /\ risk_log = <<>>
    /\ alerts = <<>>
    /\ pout = "none"

\* an ingestion-only run: no subscribers, the patrol never started
NoPatrol ==
    /\ users_index = [exists |-> FALSE, docs |-> <<>>]
    /\ now = InitialNow
    /\ PatrolIdle

\* the index as earlier runs left it: some URLs indexed once
Indexed(urls) ==
    {[_id |-> generate_id(u), _version |-> 1,
      _source |-> ArticleDoc(u, PageContent(u))] : u \in urls}

Init ==
    /\ store \in {Indexed(urls) : urls \in SUBSET URLS}
    /\ page \in [URLS -> PageStates]
    /\ Idle
    /\ NoPatrol

\* the background loop starting on an empty index
InitRerun ==
    /\ store = {}
    /\ page \in [URLS -> PageStates]
    /\ Idle
    /\ NoPatrol

\* the background loop and a manual /ingest/run, every page extractable
InitOverlap ==
    /\ store = {}
    /\ page = [u \in URLS |-> "ok"]
    /\ Idle
    /\ NoPatrol

\* one run whose feeds list more entries than the pool has workers
InitPool ==
    /\ store = {}
    /\ page \in [URLS -> {"ok", "bad"}]
    /\ Idle
    /\ NoPatrol

----------------------------------------------------------------------------
(* ingest_from_feeds, one action per step of the main thread and of a worker *)

\* fetch_feed_entries, then executor.submit for every entry
StartCycle(r, f) ==
    /\ phase[r] = "idle"
    /\ phase' = [phase EXCEPT ![r] = "pool"]
    /\ cycle' = [cycle EXCEPT ![r] = @ + 1]
    /\ feed_entries' = [feed_entries EXCEPT ![r] = f]
    /\ futures' = [futures EXCEPT ![r] = [i \in 1..Len(f) |-> Queued]]
    /\ docs_to_index' = [docs_to_index EXCEPT ![r] = <<>>]
    /\ bulkPos' = [bulkPos EXCEPT ![r] = 1]
    /\ bulkErrors' = [bulkErrors EXCEPT ![r] = 0]
    /\ hist' = [hist EXCEPT !.prevFeed[r] = feed_entries[r],
                            !.startStore[r] = store,
                            !.changedPrev[r] = hist.changed[r],
                            !.changed[r] = FALSE,
                            !.persisted[r] = @ \cup hist.wrote[r],
                            !.wrote[r] = {},
                            !.errors[r] = 0]
    /\ UNCHANGED <<store, page, patrolVars, workerVars, serviceVars>>

\* a pool thread takes the oldest queued item: url, es, doc_id
WorkerStart(r, i) ==
    /\ phase[r] = "pool"
    /\ i \in DOMAIN futures[r]
    /\ futures[r][i].pc = "queued"
    /\ \A j \in 1..(i - 1) : futures[r][j].pc # "queued"
    /\ PoolHasIdleWorker(r)
    /\ LET url == feed_entries[r][i].link
           id  == generate_id(url)
       IN  /\ futures' = [futures EXCEPT ![r][i] =
                  [@ EXCEPT !.pc = "check", !.starts = @ + 1]]
           /\ hist' = [hist EXCEPT !.idlog = @ \cup
                  {[url |-> url, id |-> id, run |-> r, cycle |-> cycle[r]]}]
    /\ UNCHANGED <<store, page, phase, cycle, feed_entries, docs_to_index,
                   bulkPos, bulkErrors, patrolVars, workerVars, serviceVars>>

\* 1. FAST CHECK: es.exists on the id; an existing id ends the item
ExistsCheck(r, i) ==
    /\ i \in DOMAIN futures[r]
    /\ futures[r][i].pc = "check"
    /\ LET found == Exists(generate_id(feed_entries[r][i].link))
       IN  futures' = [futures EXCEPT ![r][i] =
               IF GateSkips(found)
               THEN [@ EXCEPT !.pc = "done", !.found = found,
                              !.checks = @ + 1, !.result = "None"]
               ELSE [@ EXCEPT !.pc = "download", !.found = found,
                              !.checks = @ + 1]]
    /\ UNCHANGED <<store, page, phase, cycle, feed_entries, docs_to_index,
                   bulkPos, bulkErrors, hist, patrolVars, workerVars, serviceVars>>

\* 2. download_article: no raw article ends the item
Download(r, i) ==
    /\ i \in DOMAIN futures[r]
    /\ futures[r][i].pc = "download"
    /\ futures' = [futures EXCEPT ![r][i] =
           IF page[feed_entries[r][i].link] = "nobody"
           THEN [@ EXCEPT !.pc = "done", !.downloads = @ + 1,
                          !.result = "None"]
           ELSE [@ EXCEPT !.pc = "nlp", !.downloads = @ + 1]]
    /\ UNCHANGED <<store, page, phase, cycle, feed_entries, docs_to_index,
                   bulkPos, bulkErrors, hist, patrolVars, workerVars, serviceVars>>

\* title, NLP pipeline and ArticleDoc: the item's bulk action, or an exception
Enrich(r, i) ==
    /\ i \in DOMAIN futures[r]
    /\ futures[r][i].pc = "nlp"
    /\ futures' = [futures EXCEPT ![r][i] =
           IF page[feed_entries[r][i].link] = "bad"
           THEN [@ EXCEPT !.pc = "done", !.analyses = @ + 1,
                          !.result = "raised"]
           ELSE [@ EXCEPT !.pc = "done", !.analyses = @ + 1,
                          !.result = "doc"]]
    /\ UNCHANGED <<store, page, phase, cycle, feed_entries, docs_to_index,
                   bulkPos, bulkErrors, hist, patrolVars, workerVars, serviceVars>>

\* as_completed hands over a finished future; its result or its exception
Collect(r, i) ==
    /\ phase[r] = "pool"
    /\ i \in DOMAIN futures[r]
    /\ futures[r][i].pc = "done"
    /\ futures' = [futures EXCEPT ![r][i].pc = "collected"]
    /\ docs_to_index' = [docs_to_index EXCEPT ![r] =
           Collected(@, futures[r][i], feed_entries[r][i])]
    /\ hist' = [hist EXCEPT !.errors[r] =
           IF futures[r][i].result = "raised" THEN @ + 1 ELSE @]
    /\ phase' = [phase EXCEPT ![r] = AfterCollect(futures[r][i].result)]
    /\ UNCHANGED <<store, page, cycle, feed_entries, bulkPos, bulkErrors, patrolVars, workerVars, serviceVars>>

\* the with-block ends when every future is done: to the bulk write, or, with
\* nothing to index, to the return
ExitPool(r) ==
    /\ phase[r] = "pool"
    /\ AllCollected(r)
    /\ phase' = [phase EXCEPT ![r] =
           IF docs_to_index[r] = <<>> THEN "returned" ELSE "bulk"]
    /\ UNCHANGED <<store, page, cycle, feed_entries, futures, docs_to_index,
                   bulkPos, bulkErrors, hist, patrolVars, workerVars, serviceVars>>

\* bulk(es, docs_to_index, stats_only=True): the store takes the actions in
\* order, each indexed or rejected; any rejection raises after the last one
BulkIndex(r, ok) ==
    /\ phase[r] = "bulk"
    /\ bulkPos[r] <= Len(docs_to_index[r])
    /\ LET action == docs_to_index[r][bulkPos[r]]
           errs   == bulkErrors[r] + (IF ok THEN 0 ELSE 1)
       IN  /\ store' = IF ok THEN IndexDoc(store, action) ELSE store
           /\ bulkErrors' = [bulkErrors EXCEPT ![r] = errs]
           /\ hist' = [hist EXCEPT !.wrote[r] =
                  IF ok THEN @ \cup {action._source.url} ELSE @]
           /\ phase' = [phase EXCEPT ![r] =
                  IF bulkPos[r] < Len(docs_to_index[r]) THEN "bulk"
                  ELSE IF errs > 0 THEN "raised" ELSE "returned"]
    /\ bulkPos' = [bulkPos EXCEPT ![r] = @ + 1]
    /\ UNCHANGED <<page, cycle, feed_entries, futures, docs_to_index, patrolVars, workerVars, serviceVars>>

\* the background loop sleeps and comes round again; prints and the sleep
\* of run_agent_lifecycle, whether the cycle returned or raised
Sleep(r) ==
    /\ phase[r] \in {"returned", "raised"}
    /\ cycle[r] < MaxCycles
    /\ phase' = [phase EXCEPT ![r] = "idle"]
    /\ hist' = [hist EXCEPT !.prevOk[r] = (phase[r] = "returned")]
    /\ UNCHANGED <<store, page, cycle, feed_entries, futures, docs_to_index,
                   bulkPos, bulkErrors, patrolVars, workerVars, serviceVars>>

\* the web changes between two cycles: a page appears, disappears or changes
PageChange(u, st) ==
    /\ page[u] # st
    /\ \A r \in RUNS : phase[r] \notin {"pool", "bulk"}
    /\ page' = [page EXCEPT ![u] = st]
    /\ hist' = [hist EXCEPT !.changed = [r \in RUNS |-> TRUE]]
    /\ UNCHANGED <<store, phase, cycle, feed_entries, futures, docs_to_index,
                   bulkPos, bulkErrors, patrolVars, workerVars, serviceVars>>

\* what ingest_from_feeds returns once it returns
ReturnValue(r) ==
    [total_fetched |-> Len(feed_entries[r]),
     new_indexed |-> Len(docs_to_index[r])]

\* the steps of one call of ingest_from_feeds whose feeds list at most n entries
Ingest(r, feeds, n) ==
    \/ \E f \in feeds : StartCycle(r, f)
    \/ \E i \in 1..n : WorkerStart(r, i)
    \/ \E i \in 1..n : ExistsCheck(r, i)
    \/ \E i \in 1..n : Download(r, i)
    \/ \E i \in 1..n : Enrich(r, i)
    \/ \E i \in 1..n : Collect(r, i)
    \/ ExitPool(r)
    \/ \E ok \in BOOLEAN : BulkIndex(r, ok)

\* one ingestion run over an index that earlier runs filled
Next == Ingest("lifecycle", FeedLists(MaxFeed), MaxFeed)

Spec == Init /\ [][Next]_vars

\* the background lifecycle, cycle after cycle, on a changing web
NextRerun ==
    \/ Ingest("lifecycle", FeedLists(RerunFeed), RerunFeed)
    \/ Sleep("lifecycle")
    \/ \E u \in URLS, st \in PageStates : PageChange(u, st)

SpecRerun == InitRerun /\ [][NextRerun]_vars

\* the background cycle and a manual /ingest/run at the same time
NextOverlap == \E r \in RUNS : Ingest(r, FeedLists(OverlapFeed), OverlapFeed)

SpecOverlap == InitOverlap /\ [][NextOverlap]_vars

\* a feed list of PoolFeed entries over the URLs in turn
PoolFeeds ==
    LET a == CHOOSE u \in URLS : TRUE
        b == CHOOSE u \in URLS : u # a
    IN  { [i \in 1..PoolFeed |-> [link |-> IF i % 2 = 1 THEN a ELSE b]] }

NextPool == Ingest("lifecycle", PoolFeeds, PoolFeed)

SpecPool == InitPool /\ [][NextPool]_vars

----------------------------------------------------------------------------
(* The risk scan of CrisisAgent.  In a string 0 is a blank and every other  *)
(* byte a one-letter word.                                                  *)

RECURSIVE LStrip(_)
LStrip(s) == IF s # <<>> /\ Head(s) = 0 THEN LStrip(Tail(s)) ELSE s

RECURSIVE RStrip(_)
RStrip(s) ==
    IF s # <<>> /\ s[Len(s)] = 0 THEN RStrip(SubSeq(s, 1, Len(s) - 1)) ELSE s

\* topic.strip()
Strip(s) == RStrip(LStrip(s))

\* the terms the store's analysis makes of a text
Words(s) == {s[k] : k \in DOMAIN s} \ {0}

\* {"multi_match": {"query": topic, "fields": ["title", "summary"]}}
MultiMatch(topic, src) ==
    Words(topic) \cap (Words(src.title) \cup Words(src.summary)) # {}

\* {"range": {"published_date": {"gte": yesterday}}}, yesterday = now - 24 h
InRange(src, t) ==
    src.published_date > 0 /\ src.published_date >= t - RecentHours

\* {"term": {"sentiment_overall": "negative"}}
SentimentFilter(src) == src.sentiment_overall = "negative"

\* the documents the bool query of analyze_topic_risk selects at hour t
QueryMatches(topic, t) ==
    {d \in store : /\ MultiMatch(topic, d._source)
                   /\ InRange(d._source, t)
                   /\ SentimentFilter(d._source)}

Min(a, b) == IF a <= b THEN a ELSE b

\* the responses the store can give: the matches by published_date
\* descending, at most SearchSize of them, ties in any order
Search(topic, t) ==
    LET S == QueryMatches(topic, t)
        n == Min(Cardinality(S), SearchSize)
    IN  {h \in [1..n -> S] :
            /\ \A i, j \in 1..n : i < j =>
                   /\ h[i] # h[j]
                   /\ h[i]._source.published_date >= h[j]._source.published_date
            /\ \A d \in S : (\A i \in 1..n : h[i] # d) =>
                   \A i \in 1..n :
                       h[i]._source.published_date >= d._source.published_date}

\* "_source": ["title", "url", "source_name", "published_date", "summary"]
Projected(src) ==
    [title |-> src.title, url |-> src.url,
     published_date |-> src.published_date, summary |-> src.summary]

\* the literal "No summary available."
NoSummaryAvailable == <<9, 9>>

\* a record whose summary is the first one any of the hits has
RiskData_any_summary(topic, hits) ==
    LET articles_data == [k \in 1..Len(hits) |-> Projected(hits[k]._source)]
        with == {k \in DOMAIN articles_data : articles_data[k].summary # <<>>}
    IN  [topic |-> topic,
         is_critical |-> Len(hits) > 0,
         article_count |-> Len(hits),
         articles_data |-> articles_data,
         top_summary |->
             IF with # {}
             THEN articles_data[CHOOSE k \in with :
                                    \A j \in with : k <= j].summary
             ELSE NoSummaryAvailable]

\* the record analyze_topic_risk returns for the hits of its search
RiskData(topic, hits) ==
    LET articles_data == [k \in 1..Len(hits) |-> Projected(hits[k]._source)]
    IN  [topic |-> topic,
         is_critical |-> Len(hits) > 0,
         article_count |-> Len(hits),
         articles_data |-> articles_data,
         top_summary |->
             IF articles_data # <<>> /\ articles_data[1].summary # <<>>
             THEN articles_data[1].summary
             ELSE NoSummaryAvailable]

\* the (clean_topic, email) pairs in the order run_patrol meets them
RECURSIVE TopicPairs(_)
TopicPairs(users) ==
    IF users = <<>> THEN <<>>
    ELSE LET u == Head(users)
         IN  [k \in 1..Len(u.watchlist) |-> <<Strip(u.watchlist[k]), u.email>>]
             \o TopicPairs(Tail(users))

\* topic_map after the pairs: a new topic is added at the end, a known one
\* gets the email appended
RECURSIVE MapTopics(_, _)
MapTopics(pairs, map) ==
    IF pairs = <<>> THEN map
    ELSE LET p == Head(pairs)
             at == {j \in DOMAIN map : map[j].topic = p[1]}
         IN  IF at = {}
             THEN MapTopics(Tail(pairs),
                      Append(map, [topic |-> p[1], emails |-> <<p[2]>>]))
             ELSE MapTopics(Tail(pairs),
                      [map EXCEPT ![CHOOSE j \in at : TRUE].emails =
                           Append(@, p[2])])

\* a batcher that reports after every scan
ShouldAlert_always(risks) == TRUE

\* 4. Generate ONE Report: if risk_list
ShouldAlert(risks) == risks # <<>>

\* run_patrol is called
StartPatrol ==
    /\ ppc = "Idle"
    /\ ppc' = "FetchingSubscribers"
    /\ topic_map' = <<>>
    /\ todo' = 1
    /\ risk_list' = <<>>
    /\ risk_log' = <<>>
    /\ alerts' = <<>>
    /\ pout' = "none"
    /\ UNCHANGED <<ingestVars, workerVars, serviceVars, users_index, now>>

\* a patrol that goes on to the topic loop without testing the topic map
FetchUsers_unchecked(ok) ==
    /\ ppc = "FetchingSubscribers"
    /\ topic_map' = (IF ok /\ users_index.exists
                     THEN MapTopics(TopicPairs(users_index.docs), <<>>)
                     ELSE <<>>)
    /\ ppc' = "Scanning"
    /\ pout' = pout
    /\ UNCHANGED <<ingestVars, workerVars, serviceVars, users_index, now, todo, risk_list, risk_log,
                   alerts>>

\* 1. Fetch Users and 2. Map Topics: a missing index, a failing store and an
\* empty topic map end the patrol
FetchUsers(ok) ==
    /\ ppc = "FetchingSubscribers"
    /\ LET map == IF ok /\ users_index.exists
                  THEN MapTopics(TopicPairs(users_index.docs), <<>>)
                  ELSE <<>>
       IN  /\ topic_map' = map
           /\ ppc' = IF map = <<>> THEN "Idle" ELSE "Scanning"
           /\ pout' = IF map = <<>> THEN "returned" ELSE pout
    /\ UNCHANGED <<ingestVars, workerVars, serviceVars, users_index, now, todo, risk_list, risk_log,
                   alerts>>

\* a topic loop that passes over a topic whose search failed
AnalyzeTopic_skips(ok) ==
    /\ ppc = "Scanning"
    /\ todo <= Len(topic_map)
    /\ IF ok
       THEN \E hits \in Search(topic_map[todo].topic, now) :
            LET risk_data == RiskData(topic_map[todo].topic, hits)
            IN  /\ risk_log' = Append(risk_log, risk_data)
                /\ risk_list' =
                       IF risk_data.is_critical
                       THEN Append(risk_list,
                                [topic |-> risk_data.topic,
                                 is_critical |-> risk_data.is_critical,
                                 article_count |-> risk_data.article_count,
                                 articles_data |-> risk_data.articles_data,
                                 top_summary |-> risk_data.top_summary,
                                 ai_assessment |-> risk_data.top_summary,
                                 users_affected |-> topic_map[todo].emails])
                       ELSE risk_list
       ELSE UNCHANGED <<risk_list, risk_log>>
    /\ todo' = todo + 1
    /\ ppc' = IF todo = Len(topic_map) THEN "Batching" ELSE "Scanning"
    /\ pout' = pout
    /\ UNCHANGED <<ingestVars, workerVars, serviceVars, users_index, now,
                   topic_map, alerts>>

\* 3. Analyze Risks, one topic of the loop: a search that fails raises out of
\* run_patrol; a critical record joins risk_list with the assessment and the
\* subscribers
AnalyzeTopic(ok) ==
    /\ ppc = "Scanning"
    /\ todo <= Len(topic_map)
    /\ IF ok
       THEN \E hits \in Search(topic_map[todo].topic, now) :
            LET risk_data == RiskData(topic_map[todo].topic, hits)
            IN  /\ risk_log' = Append(risk_log, risk_data)
                /\ risk_list' =
                       IF risk_data.is_critical
                       THEN Append(risk_list,
                                [topic |-> risk_data.topic,
                                 is_critical |-> risk_data.is_critical,
                                 article_count |-> risk_data.article_count,
                                 articles_data |-> risk_data.articles_data,
                                 top_summary |-> risk_data.top_summary,
                                 ai_assessment |-> risk_data.top_summary,
                                 users_affected |-> topic_map[todo].emails])
                       ELSE risk_list
                /\ todo' = todo + 1
                /\ ppc' = IF todo = Len(topic_map) THEN "Batching" ELSE "Scanning"
                /\ pout' = pout
       ELSE /\ ppc' = "Idle"
            /\ pout' = "raised"
            /\ UNCHANGED <<todo, risk_list, risk_log>>
    /\ UNCHANGED <<ingestVars, workerVars, serviceVars, users_index, now, topic_map, alerts>>

\* 4. Generate ONE Report, or "All clear"
Batch ==
    /\ ppc = "Batching"
    /\ IF ShouldAlert(risk_list)
       THEN /\ ppc' = "Delivering"
            /\ alerts' = Append(alerts, risk_list)
            /\ pout' = pout
       ELSE /\ ppc' = "Idle"
            /\ alerts' = alerts
            /\ pout' = "returned"
    /\ UNCHANGED <<ingestVars, workerVars, serviceVars, users_index, now, topic_map, todo, risk_list,
                   risk_log>>

\* an alert step that drops the subscriber records it has served
Deliver_clears(ok) ==
    /\ ppc = "Delivering"
    /\ ppc' = "Idle"
    /\ pout' = IF ok THEN "returned" ELSE "raised"
    /\ users_index' = [users_index EXCEPT !.docs = <<>>]
    /\ UNCHANGED <<ingestVars, workerVars, serviceVars, now, topic_map, todo,
                   risk_list, risk_log, alerts>>

\* generate_alert_batch: the report is written and opened, or that fails
Deliver(ok) ==
    /\ ppc = "Delivering"
    /\ ppc' = "Idle"
    /\ pout' = IF ok THEN "returned" ELSE "raised"
    /\ UNCHANGED <<ingestVars, workerVars, serviceVars, users_index, now, topic_map, todo, risk_list,
                   risk_log, alerts>>

\* the topics of the model, raw as subscribers typed them
TopicA == <<1>>
TopicAPadded == <<0, 1, 0>>
TopicB == <<2>>

\* the watch-lists /user/watchlist can have stored, kept as they were sent:
\* the same topic twice is one of them
Watchlists ==
    { <<>>, <<TopicA>>, <<TopicAPadded, TopicB>>, <<TopicB>>,
      <<TopicA, TopicAPadded>> }

UserIndexes ==
    {[exists |-> FALSE, docs |-> <<>>]} \cup
    {[exists |-> TRUE,
      docs |-> <<[email |-> "a@x", watchlist |-> w1],
                 [email |-> "b@x", watchlist |-> w2]>>] :
        w1 \in Watchlists, w2 \in Watchlists}

\* contents of stored articles: matching a topic by title, by summary or not
\* at all, negative or not, undated, too old, just recent enough or ahead
Contents ==
    [title : {<<1>>, <<3>>},
     summary : {<<>>, <<1>>, <<2, 0, 3>>},
     sentiment_overall : {"negative", "neutral"},
     published_date : {0, InitialNow - RecentHours - 1,
                       InitialNow - RecentHours, InitialNow + 10}]

StoredArticles(u) ==
    {[_id |-> generate_id(u), _version |-> 1, _source |-> ArticleDoc(u, c)] :
        c \in Contents}

PatrolStores ==
    LET a == CHOOSE u \in URLS : TRUE
        b == CHOOSE u \in URLS : u # a
    IN  {{}} \cup {{d} : d \in StoredArticles(a)}
             \cup {{d, e} : d \in StoredArticles(a), e \in StoredArticles(b)}

InitPatrol ==
    /\ store \in PatrolStores
    /\ page = [u \in URLS |-> "ok"]
    /\ Idle
    /\ users_index \in UserIndexes
    /\ now = InitialNow
    /\ PatrolIdle

NextPatrol ==
    \/ StartPatrol
    \/ \E ok \in BOOLEAN : FetchUsers(ok)
    \/ \E ok \in BOOLEAN : AnalyzeTopic(ok)
    \/ Batch
    \/ \E ok \in BOOLEAN : Deliver(ok)

SpecPatrol == InitPatrol /\ [][NextPatrol]_vars

----------------------------------------------------------------------------
(* The risk scan over an index with more matches than one search returns *)

\* most documents of the index that match the watched topic
MaxMatches == 6

\* the URLs of the matching articles
MatchURLS == {<<2, k>> : k \in 1..MaxMatches}

\* the k-th matching article: negative, about TopicA, published k hours
\* before the scan, or all of them in the same hour
MatchDoc(k, summary, same_hour) ==
    [_id |-> md5_hexdigest(<<2, k>>), _version |-> 1,
     _source |-> ArticleDoc(<<2, k>>,
                     [title |-> TopicA, summary |-> summary,
                      sentiment_overall |-> "negative",
                      published_date |->
                          IF same_hour THEN InitialNow - 1
                          ELSE InitialNow - k])]

\* articles the query must leave out: a neutral one and one too old
OtherDocs ==
    {[_id |-> generate_id(u), _version |-> 1,
      _source |-> ArticleDoc(u,
                      [title |-> TopicA, summary |-> <<3>>,
                       sentiment_overall |->
                           IF u = <<1, 1>> THEN "neutral" ELSE "negative",
                       published_date |->
                           IF u = <<1, 1>> THEN InitialNow - 1
                           ELSE InitialNow - RecentHours - 1])] : u \in URLS}

\* indexes with 0 to MaxMatches matching articles; the two most recent with
\* or without a summary
ScanStores ==
    {OtherDocs \cup
     {MatchDoc(k, IF k <= 2 THEN f[k] ELSE <<3, k>>, same_hour) : k \in 1..n} :
        n \in 0..MaxMatches, f \in [1..2 -> {<<>>, <<1, 0, 3>>}],
        same_hour \in BOOLEAN}

InitScan ==
    /\ store \in ScanStores
    /\ page = [u \in URLS |-> "ok"]
    /\ Idle
    /\ users_index = [exists |-> TRUE,
                      docs |-> <<[email |-> "a@x", watchlist |-> <<TopicA>>],
                                 [email |-> "b@x", watchlist |-> <<TopicB>>]>>]
    /\ now = InitialNow
    /\ PatrolIdle

SpecScan == InitScan /\ [][NextPatrol]_vars

----------------------------------------------------------------------------
(* One feed entry followed through process_single_article and the rest of   *)
(* its cycle of ingest_from_feeds, analyzer by analyzer                     *)

\* ingest_from_feeds starts a cycle and a pool thread takes the entry
ItemSubmit(w) ==
    /\ item.pc = "idle"
    /\ item.cycle < ItemCycles
    /\ item' = [NoItem EXCEPT
           !.pc = "check", !.cycle = item.cycle + 1, !.world = w,
           !.prev = [result |-> item.result, tried |-> item.tried,
                     stored |-> Exists(generate_id(ItemLink))]]
    /\ UNCHANGED <<ingestVars, patrolVars, serviceVars>>

\* 1. FAST CHECK
ItemExists ==
    /\ item.pc = "check"
    /\ LET found == Exists(generate_id(ItemLink))
       IN  item' = IF GateSkips(found)
                   THEN [item EXCEPT !.pc = "done", !.found = found,
                                     !.result = "None"]
                   ELSE [item EXCEPT !.pc = "download", !.found = found]
    /\ UNCHANGED <<ingestVars, patrolVars, serviceVars>>

\* 2. download_article and truncate_text
ItemDownload ==
    /\ item.pc = "download"
    /\ LET raw_article == download_article(item.world)
       IN  item' = IF ~raw_article.found
                   THEN [item EXCEPT !.pc = "done", !.result = "None",
                                     !.tried = raw_article.tried]
                   ELSE [item EXCEPT !.pc = "title",
                                     !.tried = raw_article.tried,
                                     !.raw_title = raw_article.title,
                                     !.text = truncate_text(raw_article.text)]
    /\ UNCHANGED <<ingestVars, patrolVars, serviceVars>>

\* Title Logic
ItemTitle ==
    /\ item.pc = "title"
    /\ item' = [item EXCEPT
           !.pc = "language",
           !.title = final_title(StripSpaces(item.world.rss_title),
                         item.raw_title, item.text, item.world.url_title,
                         item.world.domain)]
    /\ UNCHANGED <<ingestVars, patrolVars, serviceVars>>

\* lang = safe_nlp_operation("Language detection", ...) or "en"
ItemLanguage ==
    /\ item.pc = "language"
    /\ LET lang == language_or_default(safe_nlp_operation(item.world.language))
       IN  item' = [item EXCEPT
               !.pc = IF lang # "en" THEN "translate" ELSE "summarize",
               !.lang = lang,
               !.calls = Append(@, "detect_language"),
               !.args = Append(@, item.text)]
    /\ UNCHANGED <<ingestVars, patrolVars, serviceVars>>

\* if lang != "en": translate; a result replaces the text
ItemTranslate ==
    /\ item.pc = "translate"
    /\ LET translated_result == safe_nlp_operation(item.world.translation)
       IN  item' = [item EXCEPT
               !.pc = "summarize",
               !.text = text_after_translation(@, translated_result),
               !.translated_text =
                   IF Truthy(translated_result) THEN translated_result.value
                   ELSE @,
               !.calls = Append(@, "translate_to_english"),
               !.args = Append(@, item.text)]
    /\ UNCHANGED <<ingestVars, patrolVars, serviceVars>>

\* summary = safe_nlp_operation("Summarization", summarize, text)
ItemSummarize ==
    /\ item.pc = "summarize"
    /\ item' = [item EXCEPT
           !.pc = "entities",
           !.summary = summarize(item.text, item.world.summarizer),
           !.calls = Append(@, "summarize"),
               !.args = Append(@, item.text)]
    /\ UNCHANGED <<ingestVars, patrolVars, serviceVars>>

\* entities_data, then validate_and_create_entities
ItemEntities ==
    /\ item.pc = "entities"
    /\ item' = [item EXCEPT
           !.pc = "bias",
           !.entities = validate_and_create_entities(
                            extract_entities(item.text, item.world.ner),
                            item.world.rejected),
           !.calls = Append(@, "extract_entities"),
               !.args = Append(@, item.text)]
    /\ UNCHANGED <<ingestVars, patrolVars, serviceVars>>

\* bias_result and its defaults
ItemBias ==
    /\ item.pc = "bias"
    /\ item' = [item EXCEPT
           !.pc = "sentiment",
           !.bias = label_and_score(safe_nlp_operation(item.world.bias)),
           !.calls = Append(@, "classify_bias"),
               !.args = Append(@, item.text)]
    /\ UNCHANGED <<ingestVars, patrolVars, serviceVars>>

\* sentiment_result and its defaults
ItemSentiment ==
    /\ item.pc = "sentiment"
    /\ item' = [item EXCEPT
           !.pc = "build",
           !.sentiment = label_and_score(safe_nlp_operation(
                   classify_sentiment(item.text, item.world.sentiment_model))),
           !.calls = Append(@, "classify_sentiment"),
               !.args = Append(@, item.text)]
    /\ UNCHANGED <<ingestVars, patrolVars, serviceVars>>

\* ArticleDoc(...): the document, or the validation error raised out of
\* process_single_article
ItemBuild ==
    /\ item.pc = "build"
    /\ item' = [item EXCEPT
           !.pc = "done",
           !.result = IF item.world.validates THEN "doc" ELSE "raised"]
    /\ UNCHANGED <<ingestVars, patrolVars, serviceVars>>

\* the as_completed loop takes the future; with nothing to index
\* ingest_from_feeds returns
ItemCollect ==
    /\ item.pc = "done"
    /\ item' = IF item.result = "doc"
               THEN [item EXCEPT
                        !.pc = "bulk",
                        !.batch = <<[_id |-> generate_id(ItemLink),
                                     _source |-> doc_dict(item)]>>]
               ELSE [item EXCEPT !.pc = "idle", !.outcome = "returned"]
    /\ UNCHANGED <<ingestVars, patrolVars, serviceVars>>

\* bulk(es, docs_to_index, stats_only=True) on the batch of one
ItemBulk(ok) ==
    /\ item.pc = "bulk"
    /\ store' = IF ok THEN IndexDoc(store, item.batch[1]) ELSE store
    /\ item' = [item EXCEPT
           !.pc = "idle",
           !.outcome = IF ok THEN "returned" ELSE "raised"]
    /\ UNCHANGED <<page, phase, cycle, feed_entries, futures, docs_to_index,
                   bulkPos, bulkErrors, hist, patrolVars, serviceVars>>

InitItem ==
    /\ store = {}
    /\ page = [u \in URLS |-> "ok"]
    /\ Idle
    /\ NoPatrol

NextItem ==
    \/ \E w \in Worlds(item.cycle + 1) : ItemSubmit(w)
    \/ ItemExists
    \/ ItemDownload
    \/ ItemTitle
    \/ ItemLanguage
    \/ ItemTranslate
    \/ ItemSummarize
    \/ ItemEntities
    \/ ItemBias
    \/ ItemSentiment
    \/ ItemBuild
    \/ ItemCollect
    \/ \E ok \in BOOLEAN : ItemBulk(ok)

SpecItem == InitItem /\ [][NextItem]_vars

----------------------------------------------------------------------------
(* The processes that run the cycles: run_agent_lifecycle, the background   *)
(* task of the API, and run_live_system.py, the scheduler script            *)

\* iterations of the loop of run_agent_lifecycle, and its longest feed list
LifeCycles == 2
LifeFeed == 1

\* rss_scraper.py with the function the scheduler script asks for
ScraperExports_with_scrape_all_feeds ==
    {"generate_id", "truncate_text", "clean_title", "is_valid_title",
     "extract_title_from_url", "fetch_feed_entries",
     "extract_title_from_html", "extract_title_from_content",
     "download_article", "iso_date", "safe_nlp_operation",
     "validate_and_create_entities", "process_single_article",
     "ingest_from_feeds", "scrape_all_feeds"}

\* the functions rss_scraper.py defines
ScraperExports ==
    {"generate_id", "truncate_text", "clean_title", "is_valid_title",
     "extract_title_from_url", "fetch_feed_entries",
     "extract_title_from_html", "extract_title_from_content",
     "download_article", "iso_date", "safe_nlp_operation",
     "validate_and_create_entities", "process_single_article",
     "ingest_from_feeds"}

\* get_es: es.ping() answers, or RuntimeError
get_es == IF svc.es_up THEN "es" ELSE "RuntimeError"

\* the store becomes unreachable, or reachable again
StoreChange ==
    /\ svc' = [svc EXCEPT !.es_up = ~@]
    /\ UNCHANGED <<ingestVars, patrolVars, workerVars>>

\* lifespan creates the task; agent = CrisisAgent() stands before the loop
\* and outside its try, so a RuntimeError of get_es ends the task
LifeStartup ==
    /\ svc.lifecycle = "startup"
    /\ svc' = IF get_es = "es"
              THEN [svc EXCEPT !.lifecycle = "ingest", !.started = 1]
              ELSE [svc EXCEPT !.lifecycle = "dead"]
    /\ UNCHANGED <<ingestVars, patrolVars, workerVars>>

\* await asyncio.to_thread(ingest_from_feeds, limit_per_feed=5) with the
\* store unreachable: es = get_es() raises, the except of the loop prints
LifeIngestUnreachable ==
    /\ svc.lifecycle = "ingest"
    /\ phase["lifecycle"] = "idle"
    /\ get_es = "RuntimeError"
    /\ svc' = [svc EXCEPT !.lifecycle = "sleep", !.aborted = @ + 1]
    /\ UNCHANGED <<ingestVars, patrolVars, workerVars>>

\* the steps of the awaited ingest_from_feeds
LifeIngest ==
    /\ svc.lifecycle = "ingest"
    /\ phase["lifecycle"] = "idle" => get_es = "es"
    /\ Ingest("lifecycle", FeedLists(LifeFeed), LifeFeed)

\* a loop that catches the scraper's exception alone, as job() of the
\* scheduler script does, and goes on to the patrol
LifeIngestDone_patrol_anyway ==
    /\ svc.lifecycle = "ingest"
    /\ phase["lifecycle"] \in {"returned", "raised"}
    /\ svc' = [svc EXCEPT !.lifecycle = "patrol"]
    /\ phase' = [phase EXCEPT !["lifecycle"] = "idle"]
    /\ hist' = [hist EXCEPT !.prevOk["lifecycle"] =
                                (phase["lifecycle"] = "returned")]
    /\ UNCHANGED <<store, page, cycle, feed_entries, futures, docs_to_index,
                   bulkPos, bulkErrors, patrolVars, workerVars>>

\* ingest_from_feeds returned: on to the patrol; it raised: the except of
\* the loop prints and the patrol of this iteration is not run
LifeIngestDone ==
    /\ svc.lifecycle = "ingest"
    /\ phase["lifecycle"] \in {"returned", "raised"}
    /\ svc' = IF phase["lifecycle"] = "returned"
              THEN [svc EXCEPT !.lifecycle = "patrol"]
              ELSE [svc EXCEPT !.lifecycle = "sleep", !.aborted = @ + 1]
    /\ phase' = [phase EXCEPT !["lifecycle"] = "idle"]
    /\ hist' = [hist EXCEPT !.prevOk["lifecycle"] =
                                (phase["lifecycle"] = "returned")]
    /\ UNCHANGED <<store, page, cycle, feed_entries, futures, docs_to_index,
                   bulkPos, bulkErrors, patrolVars, workerVars>>

\* the steps of the awaited agent.run_patrol, whose store is the one the
\* agent connected to at startup
LifePatrol ==
    /\ svc.lifecycle = "patrol"
    /\ \/ pout = "none" /\ StartPatrol
       \/ FetchUsers(svc.es_up)
       \/ AnalyzeTopic(svc.es_up)
       \/ Batch
       \/ \E ok \in BOOLEAN : Deliver(ok)

\* run_patrol returned, or raised into the except of the loop
LifePatrolDone ==
    /\ svc.lifecycle = "patrol"
    /\ ppc = "Idle"
    /\ pout # "none"
    /\ svc' = [svc EXCEPT !.lifecycle = "sleep",
                          !.aborted = IF pout = "raised" THEN @ + 1 ELSE @]
    /\ pout' = "none"
    /\ UNCHANGED <<ingestVars, workerVars, users_index, now, ppc, topic_map,
                   todo, risk_list, risk_log, alerts>>

\* await asyncio.sleep(600) is over: the next iteration
LifeWake ==
    /\ svc.lifecycle = "sleep"
    /\ svc.started < LifeCycles
    /\ svc' = [svc EXCEPT !.lifecycle = "ingest", !.started = @ + 1]
    /\ UNCHANGED <<ingestVars, patrolVars, workerVars>>

\* run_live_system.py: the import of scrape_all_feeds from rss_scraper, an
\* ImportError when the module has no such name; then job() once and again
\* whenever schedule finds it due: the scraper in a try, CrisisAgent() and
\* run_patrol() in a try
Scheduler ==
    /\ svc' = [svc EXCEPT !.scheduler =
           CASE @ = "importing" ->
                    IF "scrape_all_feeds" \in ScraperExports
                    THEN "scraper" ELSE "ImportError"
             [] @ = "scraper" -> "agent"
             [] @ = "agent" -> IF get_es = "es" THEN "patrol" ELSE "pending"
             [] @ = "patrol" -> "pending"
             [] @ = "pending" -> "scraper"
             [] OTHER -> @]
    /\ svc.scheduler # "ImportError"
    /\ UNCHANGED <<ingestVars, patrolVars, workerVars>>

\* an index with one article an ingestion left, recent and negative, and
\* two subscribers who watch its topic
LifeStore ==
    LET a == CHOOSE u \in URLS : TRUE
    IN  {[_id |-> generate_id(a), _version |-> 1,
          _source |-> ArticleDoc(a, [title |-> TopicA, summary |-> <<>>,
                                     sentiment_overall |-> "negative",
                                     published_date |->
                                         InitialNow - RecentHours])]}

InitLife ==
    /\ store = LifeStore
    /\ page = [u \in URLS |-> "ok"]
    /\ Idle
    /\ users_index = [exists |-> TRUE,
                      docs |-> <<[email |-> "a@x", watchlist |-> <<TopicA>>],
                                 [email |-> "b@x", watchlist |-> <<TopicA>>]>>]
    /\ now = InitialNow
    /\ PatrolIdle

NextLife ==
    \/ StoreChange
    \/ LifeStartup
    \/ LifeIngestUnreachable
    \/ LifeIngest
    \/ LifeIngestDone
    \/ LifePatrol
    \/ LifePatrolDone
    \/ LifeWake
    \/ Scheduler

SpecLife == InitLife /\ [][NextLife]_vars

----------------------------------------------------------------------------
(* Properties of the ingestion pipeline *)

Finished(r) == phase[r] \in {"bulk", "returned", "raised"}

DocFutures(r) ==
    {i \in DOMAIN futures[r] : futures[r][i].result = "doc"}

SecondPass(r) ==
    /\ cycle[r] >= 2
    /\ feed_entries[r] = hist.prevFeed[r]
    /\ hist.prevOk[r]
    /\ Finished(r)

\* C1 as stated: a second run of ingest_from_feeds over the same feed list, after
\* a first run that returned, collects an empty batch and leaves the store as
\* it found it.
C1_SecondPassAddsNothing ==
    \A r \in RUNS :
        SecondPass(r) =>
            /\ docs_to_index[r] = <<>>
            /\ store = hist.startStore[r]

\* C1 amended: a second run over the same feed list collects no document for
\* an entry that an earlier cycle persisted; entries the first run dropped are
\* tried again, and the batch is empty and the store untouched whenever no
\* page changed since the first run started.
C1_SecondPassAddsOnlyDropped ==
    \A r \in RUNS :
        SecondPass(r) =>
            /\ \A k \in DOMAIN docs_to_index[r] :
                   docs_to_index[r][k]._source.url \notin hist.persisted[r]
            /\ ~hist.changedPrev[r] =>
                   /\ docs_to_index[r] = <<>>
                   /\ store = hist.startStore[r]

C1_Witness ==
    \E r \in RUNS :
        /\ SecondPass(r)
        /\ phase[r] = "returned"
        /\ ~hist.changedPrev[r]
        /\ \E i \in DOMAIN feed_entries[r] :
               feed_entries[r][i].link \in hist.persisted[r]
        /\ docs_to_index[r] = <<>>

\* C2: a worker downloads or analyses only after its existence check, and only
\* when the check found nothing; an item whose id the check found ends with
\* the result None, no download, no analysis, nothing in the batch, and its
\* stored document is not written again.
C2_GateBeforeWork ==
    \A r \in RUNS :
        /\ \A i \in DOMAIN futures[r] :
               LET f == futures[r][i]
                   id == generate_id(feed_entries[r][i].link)
               IN  /\ (f.downloads > 0 \/ f.analyses > 0) =>
                          (f.checks = 1 /\ ~f.found)
                   /\ f.found =>
                          /\ f.pc \in {"done", "collected"}
                          /\ f.result = "None"
                          /\ f.downloads = 0 /\ f.analyses = 0
                          /\ \A k \in DOMAIN docs_to_index[r] :
                                 docs_to_index[r][k]._id # id
                          /\ \E d \in store : d._id = id /\ d._version = 1
        /\ Len(docs_to_index[r]) =
               Cardinality({i \in DocFutures(r) : futures[r][i].pc = "collected"})

C2_Witness ==
    \E r \in RUNS :
        /\ phase[r] = "returned"
        /\ \E i, j \in DOMAIN futures[r] :
               /\ futures[r][i].found /\ futures[r][i].pc = "collected"
               /\ futures[r][j].downloads = 1 /\ futures[r][j].analyses = 1
        /\ store # hist.startStore[r]

\* C3 as stated: every document id is written to the store once; no stored
\* document is written again.
C3_WrittenOnce == \A d \in store : d._version = 1

\* C4: the store never holds two documents under one id, also after two
\* workers both passed the existence check for the same URL.
C4_OneDocumentPerId ==
    \A d1, d2 \in store : d1._id = d2._id => d1 = d2

C4_Witness ==
    /\ \A r \in RUNS : phase[r] = "returned"
    /\ \E u \in URLS :
           /\ \A r \in RUNS : \E i \in DocFutures(r) :
                  feed_entries[r][i].link = u /\ ~futures[r][i].found
           /\ \E d \in store : d._id = generate_id(u) /\ d._version >= 2

\* C5: after a cycle that returned, every entry that was built into a
\* document has exactly one stored document under generate_id(link), with the
\* link as its url; in a later cycle an entry persisted before is skipped at
\* the gate, and a cycle of such entries only collects nothing and leaves the
\* store as it found it.
C5_EndToEnd ==
    \A r \in RUNS :
        /\ phase[r] = "returned" =>
               \A i \in DocFutures(r) :
                   LET u == feed_entries[r][i].link
                       hits == {d \in store : d._id = generate_id(u)}
                   IN  /\ Cardinality(hits) = 1
                       /\ \A d \in hits : d._source.url = u
        /\ \A i \in DOMAIN futures[r] :
               (/\ feed_entries[r][i].link \in hist.persisted[r]
                /\ futures[r][i].pc \in {"done", "collected"}) =>
                   /\ futures[r][i].found
                   /\ futures[r][i].result = "None"
        /\ (/\ Finished(r)
            /\ \A i \in DOMAIN feed_entries[r] :
                   feed_entries[r][i].link \in hist.persisted[r]) =>
               /\ docs_to_index[r] = <<>>
               /\ store = hist.startStore[r]
               /\ Cardinality(store) = Cardinality(hist.startStore[r])

C5_Witness ==
    \E r \in RUNS :
        /\ cycle[r] = 2
        /\ phase[r] = "returned"
        /\ feed_entries[r] # <<>>
        /\ feed_entries[r] = hist.prevFeed[r]
        /\ \A i \in DOMAIN feed_entries[r] :
               feed_entries[r][i].link \in hist.persisted[r]
        /\ store # {}

C7_WorkerFaultIsolation ==
    \A r \in RUNS :
        /\ phase[r] = "raised" => bulkErrors[r] > 0
        /\ (phase[r] = "pool" /\ ~AllCollected(r)) =>
               \E i \in DOMAIN futures[r] :
                   \/ ENABLED WorkerStart(r, i)
                   \/ ENABLED ExistsCheck(r, i)
                   \/ ENABLED Download(r, i)
                   \/ ENABLED Enrich(r, i)
                   \/ ENABLED Collect(r, i)
        /\ Finished(r) =>
               /\ AllCollected(r)
               /\ \A i \in DOMAIN futures[r] : futures[r][i].starts = 1
               /\ Len(docs_to_index[r]) = Cardinality(DocFutures(r))
               /\ \A i \in DocFutures(r) : \E k \in DOMAIN docs_to_index[r] :
                      docs_to_index[r][k]._source.url = feed_entries[r][i].link
        /\ phase[r] = "returned" =>
               \A i \in DocFutures(r) :
                   Exists(generate_id(feed_entries[r][i].link))

C7_Witness ==
    \E r \in RUNS :
        /\ phase[r] = "returned"
        /\ hist.errors[r] = 1
        /\ \E i, j \in DOMAIN futures[r] :
               /\ futures[r][i].result = "raised"
               /\ futures[r][j].result = "doc"
               /\ j > i
               /\ Exists(generate_id(feed_entries[r][j].link))

\* C8: never more than max_workers items are being processed at once, no
\* entry is started twice, and when the pool is left every entry was started
\* once.
C8_BoundedPool ==
    \A r \in RUNS :
        /\ Cardinality(Running(r)) <= max_workers
        /\ \A i \in DOMAIN futures[r] : futures[r][i].starts <= 1
        /\ Finished(r) =>
               \A i \in DOMAIN futures[r] : futures[r][i].starts = 1

C8_Witness ==
    \E r \in RUNS :
        /\ Len(feed_entries[r]) > max_workers
        /\ Cardinality(Running(r)) = max_workers
        /\ \E i \in DOMAIN futures[r] : futures[r][i].pc = "queued"

\* C18 as stated: when the store rejects some documents of the bulk write, the
\* cycle still returns normally: once the whole batch was sent, a batch with
\* rejected documents leaves ingest_from_feeds by its return.
C18_BulkFailureTolerated ==
    \A r \in RUNS :
        (bulkErrors[r] > 0 /\ bulkPos[r] > Len(docs_to_index[r])) =>
            phase[r] = "returned"

\* C20 as stated: a document that fails to build never raises out of the
\* worker: no future ends with an exception.
C20_NeverRaisedToPool ==
    \A r \in RUNS : \A i \in DOMAIN futures[r] :
        futures[r][i].result # "raised"

\* C20 amended: a document that fails to build raises out of
\* process_single_article into its future; the collection loop takes the
\* exception and goes on: the item was checked, downloaded and analysed once,
\* it has no document in the batch or in the store, and it alone never makes
\* ingest_from_feeds raise.
C20_BuildFailureDropsItem ==
    \A r \in RUNS : \A i \in DOMAIN futures[r] :
        LET f == futures[r][i]
            u == feed_entries[r][i].link
        IN  f.result = "raised" =>
                /\ f.checks = 1 /\ ~f.found
                /\ f.downloads = 1 /\ f.analyses = 1
                /\ \A k \in DOMAIN docs_to_index[r] :
                       docs_to_index[r][k]._source.url # u
                /\ u \notin hist.wrote[r]
                /\ ~Exists(generate_id(u))
                /\ f.pc = "collected" =>
                       /\ hist.errors[r] >= 1
                       /\ phase[r] \in {"pool", "bulk", "returned", "raised"}
                       /\ phase[r] = "raised" => bulkErrors[r] > 0

C20_Witness ==
    \E r \in RUNS : \E i, j \in DOMAIN futures[r] :
        /\ futures[r][i].result = "raised"
        /\ futures[r][i].pc = "collected"
        /\ futures[r][j].result = "doc"
        /\ phase[r] = "returned"
        /\ Exists(generate_id(feed_entries[r][j].link))
        /\ ~Exists(generate_id(feed_entries[r][i].link))

\* the entries of the run whose future was taken with a document
Built(r) ==
    {i \in DOMAIN futures[r] : /\ futures[r][i].pc = "collected"
                               /\ futures[r][i].result = "doc"}

\* the positions of the batch that carry the document of a URL
BatchOf(r, u) ==
    {k \in DOMAIN docs_to_index[r] :
        /\ docs_to_index[r][k]._id = generate_id(u)
        /\ docs_to_index[r][k]._source.url = u}

\* C26: the batch of a cycle holds exactly one document for each feed entry
\* that was not found in the store, had an extractable body and was built
\* without error, and nothing for an entry that was skipped as stored, had
\* no body or raised; with an empty batch no bulk write is issued and the
\* store is left as the cycle found it
C26_OutputSet ==
    \A r \in RUNS :
        /\ \A i \in DOMAIN futures[r] :
               futures[r][i].pc \in {"done", "collected"} =>
                   LET f == futures[r][i]
                       u == feed_entries[r][i].link
                   IN  /\ f.result = "doc" <=>
                              (~f.found /\ page[u] = "ok")
                       /\ f.result = "None" <=>
                              (f.found \/ page[u] = "nobody")
                       /\ f.result = "raised" <=>
                              (~f.found /\ page[u] = "bad")
        /\ Len(docs_to_index[r]) = Cardinality(Built(r))
        /\ \A u \in URLS :
               Cardinality(BatchOf(r, u)) =
                   Cardinality({i \in Built(r) : feed_entries[r][i].link = u})
        /\ phase[r] = "bulk" => docs_to_index[r] # <<>>
        /\ (phase[r] \in {"returned", "raised"} /\ docs_to_index[r] = <<>>)
               => /\ store = hist.startStore[r]
                  /\ bulkPos[r] = 1

\* a cycle of two entries, one skipped as stored and one built: a batch of one
C26_Witness ==
    /\ phase["lifecycle"] = "bulk"
    /\ Len(feed_entries["lifecycle"]) = 2
    /\ \E i, j \in DOMAIN futures["lifecycle"] :
           /\ futures["lifecycle"][i].found
           /\ futures["lifecycle"][j].result = "doc"
    /\ Len(docs_to_index["lifecycle"]) = 1

\* a cycle whose entries are all skipped, unextractable or failing: no bulk
C26_WitnessEmpty ==
    /\ phase["lifecycle"] = "returned"
    /\ Len(feed_entries["lifecycle"]) = 2
    /\ docs_to_index["lifecycle"] = <<>>
    /\ \E i \in DOMAIN futures["lifecycle"] :
           futures["lifecycle"][i].result = "raised"

\* the links of a feed list are pairwise distinct
DistinctLinks(f) ==
    \A i, j \in DOMAIN f : i # j => f[i].link # f[j].link

\* the actions the inputs of the cycle call for: one per listed link that
\* the store did not hold when the cycle started and whose page is usable
ExpectedBatch(r) ==
    {BulkAction(generate_id(u), u) :
        u \in {feed_entries[r][i].link : i \in DOMAIN feed_entries[r]}
              \ {w \in URLS : page[w] # "ok" \/
                    \E d \in hist.startStore[r] : d._id = generate_id(w)}}

\* the documents the store holds once it has accepted a set of actions
Written(r, actions) ==
    hist.startStore[r] \cup
    {[_id |-> a._id, _version |-> 1, _source |-> a._source] : a \in actions}

\* C27: for a feed list of pairwise distinct links, the documents one cycle
\* hands to the bulk writer and the documents the store holds after it (ids
\* and contents) are a function of the feed list, the store at the start and
\* the pages alone, the same in every interleaving of the workers and every
\* completion order; only the order of the batch varies
C27_ScheduleIndependence ==
    \A r \in RUNS :
        (DistinctLinks(feed_entries[r]) /\
         phase[r] \in {"bulk", "returned", "raised"}) =>
            /\ {docs_to_index[r][k] : k \in DOMAIN docs_to_index[r]}
                   = ExpectedBatch(r)
            /\ Len(docs_to_index[r]) = Cardinality(ExpectedBatch(r))
            /\ phase[r] = "returned" => store = Written(r, ExpectedBatch(r))
            /\ \E done \in SUBSET ExpectedBatch(r) : store = Written(r, done)

\* two new documents written by a cycle whose second entry finished first
C27_Witness ==
    /\ phase["lifecycle"] = "returned"
    /\ Len(feed_entries["lifecycle"]) = 2
    /\ DistinctLinks(feed_entries["lifecycle"])
    /\ Len(docs_to_index["lifecycle"]) = 2
    /\ docs_to_index["lifecycle"][1]._source.url
           = feed_entries["lifecycle"][2].link
    /\ Cardinality(store) = 2

\* the documents in the store that were not there when the cycle started
AddedByCycle(r) ==
    {d \in store : \A old \in hist.startStore[r] : old._id # d._id}

\* C31: when ingest_from_feeds returns, new_indexed is the number of
\* documents the cycle added to the store and total_fetched the number of
\* feed entries found
C31_ReportedCounts ==
    \A r \in RUNS :
        (phase[r] = "returned" /\ cycle[r] > 0) =>
            /\ ReturnValue(r).new_indexed = Cardinality(AddedByCycle(r))
            /\ ReturnValue(r).total_fetched = Len(feed_entries[r])

----------------------------------------------------------------------------
(* Properties of one feed entry in process_single_article *)

\* the summarizer of the entry's world failed on the entry's text: the model
\* is not loaded, or the text reached the pipeline and inference raised
SummarizerFailed ==
    /\ item.cycle > 0
    /\ item.pc \notin {"check", "download", "title", "language", "translate",
                       "summarize"}
    /\ item.text # <<>>
    /\ \/ item.world.summarizer = "unloaded"
       \/ /\ item.world.summarizer = "raises"
          /\ WordCount(item.text) >= MinSummaryWords

\* the document of the entry is in the index with the summary of the entry
WrittenWithSummary ==
    \E d \in store : /\ d._id = generate_id(ItemLink)
                     /\ d._source.summary = item.summary

Called == {item.calls[k] : k \in DOMAIN item.calls}

\* an analyzer of the entry's world that raises or has no result
LanguageFails == item.world.language.kind \in {"raise", "none"}
BiasFails == item.world.bias.kind \in {"raise", "none", "short"}
SentimentFails ==
    item.world.sentiment_model \in {"unloaded", "raises", "noresult"}
EntitiesFail == item.world.ner.kind = "raises"

\* ("neutral", 0.0)
NeutralZero == [label |-> "neutral", score |-> 0]

\* the entry went through the analyzers and process_single_article is over
AnalyzersRun ==
    /\ item.cycle > 0
    /\ item.pc \in {"done", "bulk", "idle"}
    /\ item.calls # <<>>

\* C14: a failing language detection, sentiment classification, bias
\* classification or entity extraction is replaced by its default ("en",
\* ("neutral", 0.0), ("neutral", 0.0), the empty list); whatever analyzers
\* fail, every analyzer is still called, the entry reaches the construction
\* of its document with these values and is never given up for an analyzer.
C14_AnalyzerDefaults ==
    /\ ("detect_language" \in Called /\ LanguageFails) => item.lang = "en"
    /\ ("classify_bias" \in Called /\ BiasFails) => item.bias = NeutralZero
    /\ ("classify_sentiment" \in Called /\ SentimentFails)
          => item.sentiment = NeutralZero
    /\ ("extract_entities" \in Called /\ EntitiesFail) => item.entities = <<>>
    /\ AnalyzersRun =>
          /\ {"detect_language", "summarize", "extract_entities",
              "classify_bias", "classify_sentiment"} \subseteq Called
          /\ item.result \in {"doc", "raised"}
          /\ item.world.validates => item.result = "doc"
    /\ item.pc = "bulk" =>
          LET d == item.batch[1]._source
          IN  /\ d.language = item.lang
              /\ d.entities = item.entities
              /\ d.bias_overall = item.bias.label
              /\ d.bias_score = item.bias.score
              /\ d.sentiment_overall = item.sentiment.label
              /\ d.sentiment_score = item.sentiment.score

\* every one of the four analyzers failed and the document is in the index
\* with the four defaults
C14_Witness ==
    /\ AnalyzersRun
    /\ LanguageFails /\ BiasFails /\ SentimentFails /\ EntitiesFail
    /\ item.pc = "idle"
    /\ \E d \in store :
          /\ d._id = generate_id(ItemLink)
          /\ d._source.language = "en"
          /\ d._source.entities = <<>>
          /\ d._source.bias_overall = "neutral" /\ d._source.bias_score = 0
          /\ d._source.sentiment_overall = "neutral"
          /\ d._source.sentiment_score = 0

\* the four candidates of the title chain, in the order of the chain, for an
\* entry whose title was just resolved
Candidates ==
    <<StripSpaces(item.world.rss_title), item.raw_title,
      extract_title_from_content(item.text), item.world.url_title>>

\* the positions of the chain whose candidate passes is_valid_title
ValidCandidates ==
    {k \in DOMAIN Candidates :
        Candidates[k] # <<>> /\ is_valid_title(Candidates[k])}

\* C15: the resolved title is the cleaned form of the earliest candidate, in
\* the order feed title, extractor title, content-mined title, URL-derived
\* title, that passes the validity predicate; the generic source-domain label
\* is used only when none of the four candidates is valid.
C15_EarliestValidWins ==
    item.pc = "language" =>
        IF ValidCandidates = {}
        THEN item.title = GenericLabel(item.world.domain)
        ELSE LET k == CHOOSE j \in ValidCandidates :
                          \A i \in ValidCandidates : j <= i
             IN  item.title \in {Candidates[k], clean_title(Candidates[k])}

\* the extractors of the entry's world: the primary extractor succeeds when
\* the fetch answers 200 and trafilatura finds a body of more than 100
\* characters, the secondary when newspaper3k finds one
PrimarySucceeds ==
    /\ ~item.world.primary.raised
    /\ item.world.primary.status = 200
    /\ Len(StripSpaces(item.world.primary.text)) > MinBodyLen
SecondarySucceeds ==
    /\ ~item.world.secondary.raised
    /\ Len(StripSpaces(item.world.secondary.text)) > MinBodyLen

\* download_article was called for the entry in this cycle, and returned
Downloaded == item.cycle > 0 /\ item.tried # <<>>

\* both extractors failed for the entry in the cycle before this one
FailedLastCycle ==
    /\ item.cycle > 1
    /\ item.prev.tried = <<"trafilatura", "newspaper3k">>
    /\ item.prev.result = "None"

\* C16: download_article runs the primary extractor first and, when it
\* succeeds, returns its body without running the secondary; the secondary
\* is run exactly when the primary fails, by an exception as well; when both
\* fail the entry gives no document in the cycle, no analyzer is called and
\* nothing is written for it, and the next cycle that lists the entry is not
\* stopped at the gate and runs the extractors again.
C16_ExtractionFallback ==
    /\ Downloaded =>
          /\ item.tried[1] = "trafilatura"
          /\ "newspaper3k" \in {item.tried[k] : k \in DOMAIN item.tried}
                <=> ~PrimarySucceeds
          /\ item.pc = "title" =>
                item.text = IF PrimarySucceeds THEN item.world.primary.text
                            ELSE item.world.secondary.text
          /\ (PrimarySucceeds \/ SecondarySucceeds) => item.result # "None"
          /\ (~PrimarySucceeds /\ ~SecondarySucceeds) =>
                /\ item.result = "None"
                /\ item.text = <<>> /\ item.calls = <<>> /\ item.batch = <<>>
                /\ item.pc \in {"done", "idle"}
                /\ ~Exists(generate_id(ItemLink))
    /\ (FailedLastCycle /\ item.pc # "check") =>
          /\ ~item.prev.stored
          /\ ~item.found
          /\ item.pc # "download" => Downloaded

\* both extractors failed in one cycle, the next cycle ran them again and the
\* secondary, run after a primary that raised, gave the body
C16_Witness ==
    /\ FailedLastCycle
    /\ item.pc = "title"
    /\ item.world.primary.raised
    /\ item.tried = <<"trafilatura", "newspaper3k">>
    /\ item.text = item.world.secondary.text

\* a name _validate_entities lets through: two characters or more, not a
\* number, not punctuation only
ValidName(name) ==
    /\ Len(name) >= 2
    /\ \E k \in DOMAIN name : name[k] \notin 48..57
    /\ \E k \in DOMAIN name : name[k] \notin Punctuation

\* C17: in the entity list of the entry no two names are equal ignoring
\* case; every kept entity is the first span of its name the entity model
\* returned, with the casing and the type of that span; the kept entities
\* stand in the order in which their names were first seen; and when no
\* entity is refused, every valid name that was seen is kept.
C17_EntityDedup ==
    ("extract_entities" \in Called /\ item.world.ner.kind = "spans") =>
        LET sp == item.world.ner.spans
            es == item.entities
            nm(j) == StripSpaces(sp[j].text)
            first(j) ==
                /\ ValidName(nm(j))
                /\ \A h \in 1..(j - 1) :
                      ValidName(nm(h)) => LowerStr(nm(h)) # LowerStr(nm(j))
        IN  /\ \A a, b \in DOMAIN es :
                  a # b => LowerStr(es[a].name) # LowerStr(es[b].name)
            /\ \E f \in [DOMAIN es -> DOMAIN sp] :
                  /\ \A a \in DOMAIN es :
                        /\ first(f[a])
                        /\ es[a].name = nm(f[a])
                        /\ es[a].type = LabelLower(sp[f[a]].label)
                  /\ \A a, b \in DOMAIN es : a < b => f[a] < f[b]
            /\ item.world.rejected = {} =>
                  \A j \in DOMAIN sp :
                      ValidName(nm(j)) =>
                          \E a \in DOMAIN es :
                              LowerStr(es[a].name) = LowerStr(nm(j))

\* the entity model returned a name twice in different casings and a second
\* name; the document in the index has the first casing, then the second name
C17_Witness ==
    /\ item.pc = "idle"
    /\ item.world.ner.kind = "spans"
    /\ Len(item.world.ner.spans) = 3
    /\ StripSpaces(item.world.ner.spans[1].text) = Apple
    /\ StripSpaces(item.world.ner.spans[2].text) = Google
    /\ StripSpaces(item.world.ner.spans[3].text) = apple_lc
    /\ \E d \in store :
          /\ d._id = generate_id(ItemLink)
          /\ Len(d._source.entities) = 2
          /\ d._source.entities[1].name = Apple
          /\ d._source.entities[2].name = Google

\* the lower-cased labels of the two entity models (en_core_web_sm and the
\* CoNLL-03 groups of the transformers pipeline) and the default "misc"
EntityTypes ==
    {"person", "norp", "fac", "org", "gpe", "loc", "product", "event",
     "work_of_art", "law", "language", "date", "time", "percent", "money",
     "quantity", "ordinal", "cardinal", "per", "misc"}

\* an entity as the claim wants it kept
WellFormedEntity(e) ==
    /\ e.name # <<>>
    /\ e.name = StripSpaces(e.name)
    /\ \E k \in DOMAIN e.name : e.name[k] \notin 48..57
    /\ \E k \in DOMAIN e.name : e.name[k] \notin Punctuation
    /\ e.sentiment \in {"positive", "negative", "neutral"}
    /\ e.type \in EntityTypes

\* the entity model returned a span that has no usable name
UnusableSpan ==
    /\ item.world.ner.kind = "spans"
    /\ \E j \in DOMAIN item.world.ner.spans :
           ~ValidName(StripSpaces(item.world.ner.spans[j].text))

CleanedCandidates ==
    {StripSpaces(item.world.rss_title), item.raw_title}

\* a candidate that is valid as found and invalid once cleaned
SpoiltByCleaning(c) ==
    /\ c # <<>>
    /\ is_valid_title(c)
    /\ ~is_valid_title(clean_title(c))

\* a title as the chain may leave it
ResolvedTitle(title) ==
    /\ title # <<>>
    /\ \/ is_valid_title(title)
       \/ title = GenericLabel(item.world.domain)
    /\ \A c \in CleanedCandidates :
           SpoiltByCleaning(c) => title # clean_title(c)

\* C30: the title the chain hands to the analyzers, and the title of every
\* document built, is non-empty and either passes is_valid_title or is the
\* label "Article from <domain>"; the cleaned form of a candidate that was
\* valid before cleaning and invalid after is never the title
C30_ResolvedTitle ==
    /\ item.pc = "language" => ResolvedTitle(item.title)
    /\ item.batch # <<>> => ResolvedTitle(item.batch[1]._source.title)

\* a feed title valid as found and too short once its suffix is cleaned off:
\* the document carries the generic label
C30_Witness ==
    /\ item.batch # <<>>
    /\ SpoiltByCleaning(StripSpaces(item.world.rss_title))
    /\ clean_title(StripSpaces(item.world.rss_title)) # <<>>
    /\ item.batch[1]._source.title = GenericLabel(item.world.domain)

----------------------------------------------------------------------------
(* Properties of the processes that run the cycles *)

\* the risk scans that are executing: the one run_agent_lifecycle awaits and
\* the one inside job() of the scheduler script
ScansInFlight ==
    (IF ppc # "Idle" THEN 1 ELSE 0) +
    (IF svc.scheduler = "patrol" THEN 1 ELSE 0)

C19_LifecycleKeepsRunning ==
    svc.lifecycle \in {"startup", "ingest", "patrol", "sleep"}

\* ingest_from_feeds of the background loop is between its call and its end
IngestRunning == phase["lifecycle"] \in {"pool", "bulk"}

\* run_patrol is between its start and its end
PatrolRunning == ppc # "Idle"

\* the scan and the ingestion of the loop never run at the same time, and
\* each runs only in its part of the iteration
LoopSequential ==
    /\ ~(IngestRunning /\ PatrolRunning)
    /\ IngestRunning => svc.lifecycle = "ingest"
    /\ PatrolRunning => svc.lifecycle = "patrol"
    /\ svc.lifecycle = "patrol" =>
           /\ phase["lifecycle"] = "idle"
           /\ hist.prevOk["lifecycle"]
    /\ (svc.lifecycle = "sleep" /\ svc.started < LifeCycles) => ENABLED LifeWake

\* the loop moves on from the ingestion: to the patrol exactly when
\* ingest_from_feeds returned, to the sleep without a patrol when it raised
AfterIngestion ==
    (svc.lifecycle = "ingest" /\ svc'.lifecycle # "ingest") =>
        /\ ~PatrolRunning /\ ppc' = ppc
        /\ risk_log' = risk_log /\ alerts' = alerts
        /\ IF phase["lifecycle"] = "returned"
           THEN svc'.lifecycle = "patrol" /\ svc'.aborted = svc.aborted
           ELSE /\ svc'.lifecycle = "sleep"
                /\ svc'.aborted = svc.aborted + 1
                /\ \/ phase["lifecycle"] = "raised"
                   \/ phase["lifecycle"] = "idle" /\ get_es = "RuntimeError"

\* a patrol starts only in the patrol part of the iteration; from the sleep
\* the loop goes to the ingestion of the next iteration
LoopOrder ==
    /\ (~PatrolRunning /\ ppc' # "Idle") =>
           /\ svc.lifecycle = "patrol"
           /\ phase["lifecycle"] = "idle"
    /\ (svc.lifecycle = "sleep" /\ svc'.lifecycle # "sleep") =>
           /\ svc'.lifecycle = "ingest"
           /\ svc'.started = svc.started + 1
    /\ (svc.lifecycle = "patrol" /\ svc'.lifecycle # "patrol") =>
           svc'.lifecycle = "sleep"

\* C33: in every iteration of run_agent_lifecycle the risk scan starts only
\* after the ingestion of that iteration, bulk write included, has
\* returned; the two never run at the same time; when the ingestion raises
\* the scan of that iteration is not run and the loop goes on to its sleep
\* and the next iteration
C33_IngestThenScan ==
    /\ []LoopSequential
    /\ [][AfterIngestion /\ LoopOrder]_vars

\* the second iteration has begun after a first whose bulk write raised and
\* whose scan was never started
C33_Witness ==
    /\ svc.lifecycle = "ingest"
    /\ svc.started = 2
    /\ svc.aborted = 1
    /\ phase["lifecycle"] = "idle"
    /\ bulkErrors["lifecycle"] > 0
    /\ ~hist.prevOk["lifecycle"]
    /\ risk_log = <<>>
    /\ pout = "none"

----------------------------------------------------------------------------
(* Properties of the risk scan *)

\* the patrol went through every topic and past the batch step
ScanDone ==
    /\ ppc \in {"Delivering", "Idle"}
    /\ pout # "none" \/ ppc = "Delivering"
    /\ topic_map # <<>>
    /\ todo > Len(topic_map)

CriticalRecords == {k \in DOMAIN risk_log : risk_log[k].is_critical}

ScanState ==
    IF ppc = "Batching" /\ risk_list = <<>> THEN "Scanning" ELSE ppc

ScanStateNext ==
    IF ppc' = "Batching" /\ risk_list' = <<>> THEN "Scanning" ELSE ppc'

\* what holds in the states of the cycle: Scanning has topics, Delivering has
\* a batch that came through Batching
ScanStatesOK ==
    /\ ScanState \in {"Idle", "FetchingSubscribers", "Scanning", "Batching",
                       "Delivering"}
    /\ ScanState = "Scanning" => topic_map # <<>>
    /\ ScanState = "Delivering" => (risk_list # <<>> /\ alerts = <<risk_list>>)

\* the transitions of the state machine as the spec draws it
StatedTransition ==
    \/ ScanStateNext = ScanState
    \/ ScanState = "Idle" /\ ScanStateNext = "FetchingSubscribers"
    \/ /\ ScanState = "FetchingSubscribers" /\ ScanStateNext = "Idle"
       /\ topic_map' = <<>>
    \/ /\ ScanState = "FetchingSubscribers" /\ ScanStateNext = "Scanning"
       /\ topic_map' # <<>>
    \/ /\ ScanState = "Scanning" /\ ScanStateNext = "Idle"
       /\ risk_list = <<>>
    \/ /\ ScanState = "Scanning" /\ ScanStateNext = "Batching"
       /\ risk_list' # <<>>
    \/ /\ ScanState = "Batching" /\ ScanStateNext = "Delivering"
       /\ risk_list # <<>>
    \/ ScanState = "Delivering" /\ ScanStateNext = "Idle"

\* a search that raised ends the scan from Scanning or from the test after
\* the loop, whatever was found critical before
AbortTransition ==
    /\ ScanState \in {"Scanning", "Batching"}
    /\ ScanStateNext = "Idle"
    /\ todo <= Len(topic_map)
    /\ pout' = "raised"

\* C12 as stated: run_patrol follows only the transitions Idle ->
\* FetchingSubscribers -> Scanning -> Batching -> Delivering -> Idle, returning
\* early to Idle only with no subscribers or topics and with no critical topic;
\* Delivering comes only through Batching with a non-empty batch, and Scanning
\* never has an empty topic map.
C12_StatedMachine == [](ScanStatesOK) /\ [][StatedTransition]_vars

\* C12 amended: the transitions are those stated and one more: a store query
\* that fails while a topic is evaluated ends the cycle at once, also when
\* topics were already found critical.
C12_MachineWithAbort ==
    [](ScanStatesOK) /\ [][StatedTransition \/ AbortTransition]_vars

C12_Witness ==
    /\ ppc = "Idle"
    /\ pout = "raised"
    /\ risk_list # <<>>
    /\ todo <= Len(topic_map)
    /\ alerts = <<>>

\* the stored documents that mention the topic in title or summary, are
\* negative and were published within the RecentHours before the scan
RecentNegativeMentions(topic) ==
    {d \in store :
        /\ \E w \in Words(topic) :
               w \in Words(d._source.title) \/ w \in Words(d._source.summary)
        /\ d._source.published_date > 0
        /\ d._source.published_date <= now
        /\ now - d._source.published_date <= RecentHours
        /\ d._source.sentiment_overall = "negative"}

\* C10 as stated: every record analyze_topic_risk returned is critical exactly
\* when the store holds a document that matches the topic in title or summary,
\* was published within the last 24 hours and is negative; with no such
\* document the record is not critical and counts 0, with exactly one it is
\* critical and counts 1.
C10_CriticalIffRecent ==
    \A k \in DOMAIN risk_log :
        LET rd == risk_log[k]
            n  == Cardinality(RecentNegativeMentions(rd.topic))
        IN  /\ rd.is_critical <=> n >= 1
            /\ n = 0 => (~rd.is_critical /\ rd.article_count = 0)
            /\ n = 1 => (rd.is_critical /\ rd.article_count = 1)

\* the distinct trimmed topics of all watch-lists, and the subscribers whose
\* watch-list has a topic
AllTopics ==
    UNION {{Strip(users_index.docs[u].watchlist[k]) :
               k \in DOMAIN users_index.docs[u].watchlist} :
           u \in DOMAIN users_index.docs}

Watchers(topic) ==
    {users_index.docs[u].email :
        u \in {v \in DOMAIN users_index.docs :
                 \E k \in DOMAIN users_index.docs[v].watchlist :
                     Strip(users_index.docs[v].watchlist[k]) = topic}}

\* C21: in one scan every distinct trimmed topic of the watch-lists is
\* evaluated by analyze_topic_risk exactly once, however many subscribers
\* watch it, and the record of a critical topic lists as affected exactly
\* the subscribers whose watch-list has the topic, each once.
C21_TopicFlattening ==
    ppc = "Batching" =>
        /\ \A t \in AllTopics :
              Cardinality({k \in DOMAIN risk_log : risk_log[k].topic = t}) = 1
        /\ \A k \in DOMAIN risk_log : risk_log[k].topic \in AllTopics
        /\ \A k \in DOMAIN risk_list :
              LET emails == risk_list[k].users_affected
              IN  /\ {emails[j] : j \in DOMAIN emails}
                        = Watchers(risk_list[k].topic)
                  /\ Len(emails) = Cardinality(Watchers(risk_list[k].topic))

\* C22: the record analyze_topic_risk returns for a topic carries as its
\* match count the number of documents that match the topic (recent,
\* negative, relevant) and a match set with only the SearchSize most recent
\* of them: the set never has more than SearchSize entries while the count
\* is the number of matches.
C22_CountAndCap ==
    \A k \in DOMAIN risk_log :
        LET rd == risk_log[k]
            matches == RecentNegativeMentions(rd.topic)
        IN  /\ rd.article_count = Cardinality(matches)
            /\ Len(rd.articles_data) <= SearchSize
            /\ Len(rd.articles_data) = Min(Cardinality(matches), SearchSize)
            /\ \A j \in DOMAIN rd.articles_data :
                  /\ \E d \in matches : rd.articles_data[j].url = d._source.url
                  /\ Cardinality({d \in matches :
                         d._source.published_date >
                             rd.articles_data[j].published_date}) < SearchSize

\* the documents the search of a topic matches that no other match is more
\* recent than
LatestMatches(topic) ==
    {d \in QueryMatches(topic, now) :
        \A e \in QueryMatches(topic, now) :
            d._source.published_date >= e._source.published_date}

\* C23: the assessment of a critical topic (top_summary, copied to
\* ai_assessment) is the summary of the most recent document the search
\* matched, and the literal "No summary available." exactly when that
\* document has no summary or an empty one; the summary of an older match is
\* never used.
C23_RepresentativeAssessment ==
    \A k \in DOMAIN risk_list :
        LET r == risk_list[k]
        IN  /\ r.ai_assessment = r.top_summary
            /\ r.articles_data # <<>>
            /\ \E d \in LatestMatches(r.topic) :
                  /\ r.articles_data[1].url = d._source.url
                  /\ r.top_summary = NoSummaryAvailable
                        <=> d._source.summary = <<>>
                  /\ d._source.summary # <<>> =>
                        r.top_summary = d._source.summary

\* an alert is being delivered for a topic whose most recent match has no
\* summary while an older match has one: the assessment is the placeholder
C23_Witness ==
    /\ ppc = "Delivering"
    /\ risk_list # <<>>
    /\ risk_list[1].top_summary = NoSummaryAvailable
    /\ Len(risk_list[1].articles_data) >= 2
    /\ risk_list[1].articles_data[2].summary # <<>>
    /\ risk_list[1].articles_data[1].published_date >
           risk_list[1].articles_data[2].published_date

\* the analyzers in the order of the NLP pipeline
Pipeline ==
    <<"detect_language", "translate_to_english", "summarize",
      "extract_entities", "classify_bias", "classify_sentiment">>

\* the pipeline of an item whose language is "en"
PipelineEnglish == Pick(Pipeline, DOMAIN Pipeline \ {2})

IsPrefix(s, t) == Len(s) <= Len(t) /\ \A k \in DOMAIN s : s[k] = t[k]

\* the language detection answered "en"
DetectedEnglish ==
    item.world.language.kind = "value" /\ item.world.language.value = "en"

\* the translation was called and answered with a text
TranslationSucceeded ==
    /\ "translate_to_english" \in Called
    /\ Truthy(safe_nlp_operation(item.world.translation))

\* C24: the analyzers of an item are called in the order detect language,
\* translate, summarize, extract entities, classify bias, classify
\* sentiment, the translation only when the language is not "en" and
\* never for an item detected as English; an item that reaches the build
\* step has had all of them; after a translation that returned a text every
\* later analyzer is given that text, and before it (or without it) the
\* extracted text
C24_EnrichmentOrder ==
    /\ IsPrefix(item.calls, IF item.lang = "en" THEN PipelineEnglish
                            ELSE Pipeline)
    /\ Len(item.args) = Len(item.calls)
    /\ DetectedEnglish => "translate_to_english" \notin Called
    /\ (item.calls # <<>> /\ item.lang # "en" /\ item.pc # "translate")
           => "translate_to_english" \in Called
    /\ item.result = "doc" =>
           item.calls = (IF item.lang = "en" THEN PipelineEnglish
                         ELSE Pipeline)
    /\ \A k \in DOMAIN item.args :
           item.args[k] =
               IF TranslationSucceeded /\ k > 2
               THEN item.world.translation.value
               ELSE item.args[1]

\* a Hindi item translated and carried through the whole pipeline
C24_Witness ==
    /\ item.result = "doc"
    /\ item.lang = "hi"
    /\ TranslationSucceeded
    /\ item.calls = Pipeline
    /\ item.args[3] = EnglishBody
    /\ item.args[1] # EnglishBody

\* the language is not "en" and the translation was called and raised,
\* returned None or returned an empty text
TranslationFailed ==
    /\ item.lang \notin {"en", "None"}
    /\ "translate_to_english" \in Called
    /\ \/ item.world.translation.kind \in {"raise", "none"}
       \/ item.world.translation.value = <<>>

\* C25: when the language of an item is not "en" and the translation
\* raises or returns nothing, every later analyzer is given the text as
\* extracted, translated_text stays absent, the language stays the detected
\* code, all the later analyzers run and the document is built and handed
\* on as with any other item
C25_TranslationFailureDegraded ==
    TranslationFailed =>
        /\ item.lang = item.world.language.value
        /\ item.translated_text = <<>>
        /\ \A k \in DOMAIN item.args : item.args[k] = item.args[1]
        /\ item.pc \in {"done", "bulk", "idle"} =>
               /\ item.calls = Pipeline
               /\ item.result = "doc" <=> item.world.validates
        /\ item.batch # <<>> =>
               /\ item.batch[1]._source.language = item.world.language.value
               /\ item.batch[1]._source.translated_text = <<>>

\* a Hindi item whose translation failed, in the batch with its language
C25_Witness ==
    /\ TranslationFailed
    /\ item.world.translation.kind = "raise"
    /\ item.batch # <<>>
    /\ item.batch[1]._source.language = "hi"
    /\ item.args[6] = LongBody

\* a step of run_patrol: the patrol is under way before or after it
PatrolStep == ppc # "Idle" \/ ppc' # "Idle"

\* C29: no step of run_patrol, from its start to its end with an alert,
\* with no alert or with an error, changes the article documents or the
\* subscriber records of the store
C29_ScanReadOnly ==
    [][PatrolStep => (store' = store /\ users_index' = users_index)]_vars

\* a patrol over stored articles and subscribers that ended with an alert
C29_Witness ==
    /\ ppc = "Idle"
    /\ pout = "returned"
    /\ alerts # <<>>
    /\ store # {}
    /\ users_index.exists

\* a patrol that ended with an error after its first record
C29_WitnessError ==
    /\ ppc = "Idle"
    /\ pout = "raised"
    /\ risk_log # <<>>
    /\ store # {}

\* a step of the topic loop that evaluated its topic: one more record
TopicEvaluated ==
    /\ Len(risk_log') = Len(risk_log) + 1
    /\ todo' = todo + 1

\* a step that ends the patrol on the spot with an exception and no report
ScanAborted ==
    /\ ppc' = "Idle"
    /\ pout' = "raised"
    /\ alerts' = <<>>
    /\ risk_list' = risk_list
    /\ risk_log' = risk_log

\* the subscriber fetch ended the patrol: no topic evaluated, no report
FetchEnded ==
    /\ ppc' = "Idle"
    /\ pout' = "returned"
    /\ topic_map' = <<>>
    /\ risk_log' = <<>>
    /\ alerts' = <<>>

\* the subscriber fetch went through and left topics to evaluate
FetchWentOn ==
    /\ ppc' = "Scanning"
    /\ users_index.exists
    /\ topic_map' # <<>>
    /\ topic_map' = MapTopics(TopicPairs(users_index.docs), <<>>)

\* a patrol that ended inside the topic loop has generated no report
NoReportAfterAbort ==
    (ppc = "Idle" /\ pout = "raised" /\ todo <= Len(topic_map))
        => alerts = <<>>

\* C32: a step of the topic loop either evaluates its topic or, when the
\* store query fails, ends the patrol at once without a report, whatever
\* was found critical before; a failed subscriber fetch ends the patrol
\* with no topic evaluated and no report
C32_ScanAbortDiscards ==
    /\ []NoReportAfterAbort
    /\ [][/\ ppc = "Scanning" => (TopicEvaluated \/ ScanAborted)
          /\ ppc = "FetchingSubscribers" => (FetchWentOn \/ FetchEnded)]_vars

\* a patrol that had found its first topic critical and ended on the
\* failing search of the second, without a report
C32_Witness ==
    /\ ppc = "Idle"
    /\ pout = "raised"
    /\ Len(topic_map) = 2
    /\ todo = 2
    /\ Len(risk_list) = 1
    /\ Len(risk_log) = 1
    /\ alerts = <<>>

====
